---- MODULE Spec2Model ----
(***************************************************************************)
(* File server of luckysantoso/stress-test-ets: the per-connection state   *)
(* machine ClientHandler.run (file_server.py), the storage backend         *)
(* FileInterface (file_interface.py) and the wire formats they exchange.   *)
(*                                                                         *)
(* Text is modelled as Python holds it: bytes are integers 0..255, a str   *)
(* is a sequence of code points, and every literal of the source is the    *)
(* sequence of its character codes.  The byte alphabet of the modelled     *)
(* streams is ASCII plus two-byte UTF-8 sequences.                         *)
(***************************************************************************)
EXTENDS Integers, Sequences, FiniteSets, TLC

\* ---------------------------------------------------------------- bounds
\* Frames a client sends on one connection.
MaxFrames == 2
\* Base64 chunk frames of one upload in the round-trip specification.
MaxChunks == 2

\* ------------------------------------------------------- program constants
BUFFER_SIZE == 1048576
TMP_DIR == <<47, 116, 109, 112>>  \* '/tmp'
READY == <<82, 69, 65, 68, 89, 32, 84, 79, 32, 82, 69, 67, 69, 73, 86, 69, 32, 70, 73, 76, 69>>  \* 'READY TO RECEIVE FILE'
Terminator == <<13, 10, 13, 10>>  \* '\r\n\r\n'
\* '\n', the frame delimiter of run's inner loop
NL == <<10>>
\* ' '
SP == <<32>>

\* ------------------------------------------------- literals of the source
s_LIST == <<76, 73, 83, 84>>  \* 'LIST'
s_GET == <<71, 69, 84>>  \* 'GET'
s_DELETE == <<68, 69, 76, 69, 84, 69>>  \* 'DELETE'
s_UPLOAD == <<85, 80, 76, 79, 65, 68>>  \* 'UPLOAD'
s_ENDUPLOAD == <<69, 78, 68, 85, 80, 76, 79, 65, 68>>  \* 'ENDUPLOAD'
k_status == <<115, 116, 97, 116, 117, 115>>  \* 'status'
k_data == <<100, 97, 116, 97>>  \* 'data'
k_message == <<109, 101, 115, 115, 97, 103, 101>>  \* 'message'
k_data_namafile == <<100, 97, 116, 97, 95, 110, 97, 109, 97, 102, 105, 108, 101>>  \* 'data_namafile'
k_data_file == <<100, 97, 116, 97, 95, 102, 105, 108, 101>>  \* 'data_file'
k_file_path == <<102, 105, 108, 101, 95, 112, 97, 116, 104>>  \* 'file_path'
s_OK == <<79, 75>>  \* 'OK'
s_ERROR == <<69, 82, 82, 79, 82>>  \* 'ERROR'
s_uploaded == <<70, 105, 108, 101, 32, 117, 112, 108, 111, 97, 100, 101, 100, 32, 115, 117, 99, 99, 101, 115, 115, 102, 117, 108, 108, 121>>  \* 'File uploaded successfully'
s_deleted == <<70, 105, 108, 101, 32, 100, 101, 108, 101, 116, 101, 100, 32, 115, 117, 99, 99, 101, 115, 115, 102, 117, 108, 108, 121>>  \* 'File deleted successfully'
s_err_head == <<123, 34, 115, 116, 97, 116, 117, 115, 34, 58, 34, 69, 82, 82, 79, 82, 34, 44, 34, 100, 97, 116, 97, 34, 58, 34>>  \* '{"status":"ERROR","data":"'
s_err_tail == <<34, 125>>  \* '"}'
s_png == <<46, 112, 110, 103>>  \* '.png'
s_jpeg == <<46, 106, 112, 101, 103>>  \* '.jpeg'
s_pdf == <<46, 112, 100, 102>>  \* '.pdf'
s_gif == <<46, 103, 105, 102>>  \* '.gif'
s_zip == <<46, 122, 105, 112>>  \* '.zip'
s_mpeg == <<46, 109, 112, 101, 103>>  \* '.mpeg'
m_png == <<137, 80, 78, 71, 13, 10, 26, 10>>  \* b'\x89PNG\r\n\x1a\n'
m_jpeg == <<255, 216, 255>>  \* b'\xff\xd8\xff'
m_pdf == <<37, 80, 68, 70>>  \* b'%PDF'
m_gif87 == <<71, 73, 70, 56, 55, 97>>  \* b'GIF87a'
m_gif89 == <<71, 73, 70, 56, 57, 97>>  \* b'GIF89a'
m_zip == <<80, 75, 3, 4>>  \* b'PK\x03\x04'
m_id3 == <<73, 68, 51>>  \* b'ID3'
m_mp3 == <<255, 251>>  \* b'\xff\xfb'

\* -------------------------------------- messages of the Python exceptions
s_enoent == <<91, 69, 114, 114, 110, 111, 32, 50, 93, 32, 78, 111, 32, 115, 117, 99, 104, 32, 102, 105, 108, 101, 32, 111, 114, 32, 100, 105, 114, 101, 99, 116, 111, 114, 121, 58, 32>>  \* '[Errno 2] No such file or directory: '
s_eacces == <<91, 69, 114, 114, 110, 111, 32, 49, 51, 93, 32, 80, 101, 114, 109, 105, 115, 115, 105, 111, 110, 32, 100, 101, 110, 105, 101, 100, 58, 32>>  \* '[Errno 13] Permission denied: '
s_enospc == <<91, 69, 114, 114, 110, 111, 32, 50, 56, 93, 32, 78, 111, 32, 115, 112, 97, 99, 101, 32, 108, 101, 102, 116, 32, 111, 110, 32, 100, 101, 118, 105, 99, 101>>  \* '[Errno 28] No space left on device'
s_epipe == <<91, 69, 114, 114, 110, 111, 32, 51, 50, 93, 32, 66, 114, 111, 107, 101, 110, 32, 112, 105, 112, 101>>  \* '[Errno 32] Broken pipe'
s_econnreset == <<91, 69, 114, 114, 110, 111, 32, 49, 48, 52, 93, 32, 67, 111, 110, 110, 101, 99, 116, 105, 111, 110, 32, 114, 101, 115, 101, 116, 32, 98, 121, 32, 112, 101, 101, 114>>  \* '[Errno 104] Connection reset by peer'
s_index_error == <<108, 105, 115, 116, 32, 105, 110, 100, 101, 120, 32, 111, 117, 116, 32, 111, 102, 32, 114, 97, 110, 103, 101>>  \* 'list index out of range'
s_bad_padding == <<73, 110, 99, 111, 114, 114, 101, 99, 116, 32, 112, 97, 100, 100, 105, 110, 103>>  \* 'Incorrect padding'
s_bad_count_1 == <<73, 110, 118, 97, 108, 105, 100, 32, 98, 97, 115, 101, 54, 52, 45, 101, 110, 99, 111, 100, 101, 100, 32, 115, 116, 114, 105, 110, 103, 58, 32, 110, 117, 109, 98, 101, 114, 32, 111, 102, 32, 100, 97, 116, 97, 32, 99, 104, 97, 114, 97, 99, 116, 101, 114, 115, 32, 40>>  \* 'Invalid base64-encoded string: number of data characters ('
s_bad_count_2 == <<41, 32, 99, 97, 110, 110, 111, 116, 32, 98, 101, 32, 49, 32, 109, 111, 114, 101, 32, 116, 104, 97, 110, 32, 97, 32, 109, 117, 108, 116, 105, 112, 108, 101, 32, 111, 102, 32, 52>>  \* ') cannot be 1 more than a multiple of 4'
s_not_ascii == <<115, 116, 114, 105, 110, 103, 32, 97, 114, 103, 117, 109, 101, 110, 116, 32, 115, 104, 111, 117, 108, 100, 32, 99, 111, 110, 116, 97, 105, 110, 32, 111, 110, 108, 121, 32, 65, 83, 67, 73, 73, 32, 99, 104, 97, 114, 97, 99, 116, 101, 114, 115>>  \* 'string argument should contain only ASCII characters'
s_utf8_1 == <<39, 117, 116, 102, 45, 56, 39, 32, 99, 111, 100, 101, 99, 32, 99, 97, 110, 39, 116, 32, 100, 101, 99, 111, 100, 101, 32, 98, 121, 116, 101, 32, 48, 120>>  \* "'utf-8' codec can't decode byte 0x"
s_utf8_2 == <<32, 105, 110, 32, 112, 111, 115, 105, 116, 105, 111, 110, 32>>  \* ' in position '
s_utf8_eod == <<58, 32, 117, 110, 101, 120, 112, 101, 99, 116, 101, 100, 32, 101, 110, 100, 32, 111, 102, 32, 100, 97, 116, 97>>  \* ': unexpected end of data'
s_utf8_start == <<58, 32, 105, 110, 118, 97, 108, 105, 100, 32, 115, 116, 97, 114, 116, 32, 98, 121, 116, 101>>  \* ': invalid start byte'
s_utf8_cont == <<58, 32, 105, 110, 118, 97, 108, 105, 100, 32, 99, 111, 110, 116, 105, 110, 117, 97, 116, 105, 111, 110, 32, 98, 121, 116, 101>>  \* ': invalid continuation byte'

\* ------------------------------------ texts of the dispatcher's envelopes
s_unknown == <<117, 110, 107, 110, 111, 119, 110, 32, 99, 111, 109, 109, 97, 110, 100, 58, 32>>  \* 'unknown command: '
s_empty == <<101, 109, 112, 116, 121, 32, 99, 111, 109, 109, 97, 110, 100>>  \* 'empty command'
s_json_status_ok == <<123, 34, 115, 116, 97, 116, 117, 115, 34, 58, 32, 34, 79, 75, 34>>  \* '{"status": "OK"'
s_json_status_error == <<123, 34, 115, 116, 97, 116, 117, 115, 34, 58, 32, 34, 69, 82, 82, 79, 82, 34>>  \* '{"status": "ERROR"'

HexDigits == <<48, 49, 50, 51, 52, 53, 54, 55, 56, 57, 97, 98, 99, 100, 101, 102>>  \* '0123456789abcdef'
B64Alphabet == <<65, 66, 67, 68, 69, 70, 71, 72, 73, 74, 75, 76, 77, 78, 79, 80, 81, 82, 83, 84, 85, 86, 87, 88, 89, 90, 97, 98, 99, 100, 101, 102, 103, 104, 105, 106, 107, 108, 109, 110, 111, 112, 113, 114, 115, 116, 117, 118, 119, 120, 121, 122, 48, 49, 50, 51, 52, 53, 54, 55, 56, 57, 43, 47>>  \* 'ABCDEFGHIJKLMNOPQRSTUVWXYZabcdefghijklmnopqrstuvwxyz0123456789+/'

\* ------------------------------------------------------------ str helpers
Min(a, b) == IF a < b THEN a ELSE b

\* s[a:] and s[:n] of Python
Drop(s, n) == SubSeq(s, n + 1, Len(s))
Take(s, n) == SubSeq(s, 1, Min(n, Len(s)))

\* s.startswith(p)
StartsWith(s, p) == Len(s) >= Len(p) /\ SubSeq(s, 1, Len(p)) = p

\* c in s
Contains(s, c) == \E i \in 1..Len(s) : s[i] = c

\* s.find(c) + 1: the index of the first c in s (s contains c)
IndexOf(s, c) == CHOOSE i \in 1..Len(s) : s[i] = c /\ \A j \in 1..(i - 1) : s[j] # c

\* the first index at which t occurs in s, 0 if it does not
Find(s, t) ==
    LET at == {i \in 1..(Len(s) - Len(t) + 1) : SubSeq(s, i, i + Len(t) - 1) = t}
    IN  IF at = {} THEN 0 ELSE CHOOSE i \in at : \A j \in at : i <= j

\* the characters str.strip() and str.split() treat as whitespace
IsSpace(c) == c \in {9, 10, 11, 12, 13, 28, 29, 30, 31, 32, 133, 160}

RECURSIVE LStrip(_)
LStrip(s) == IF s # <<>> /\ IsSpace(Head(s)) THEN LStrip(Tail(s)) ELSE s

RECURSIVE RStrip(_)
RStrip(s) ==
    IF s # <<>> /\ IsSpace(s[Len(s)]) THEN RStrip(SubSeq(s, 1, Len(s) - 1)) ELSE s

\* line.strip()
Strip(s) == RStrip(LStrip(s))

\* the leading run of non-whitespace characters of s
RECURSIVE Token(_)
Token(s) ==
    IF s = <<>> \/ IsSpace(Head(s)) THEN <<>> ELSE <<Head(s)>> \o Token(Tail(s))

\* s.split(): the whitespace-separated tokens of s
RECURSIVE Split(_)
Split(s) ==
    LET t == LStrip(s)
    IN  IF t = <<>> THEN <<>>
        ELSE <<Token(t)>> \o Split(Drop(t, Len(Token(t))))

\* str(n) for a natural number n
RECURSIVE DecStr(_)
DecStr(n) ==
    IF n < 10 THEN <<48 + n>> ELSE DecStr(n \div 10) \o <<48 + (n % 10)>>

\* '%02x' % b
Hex2(b) == <<HexDigits[(b \div 16) + 1], HexDigits[(b % 16) + 1]>>

\* repr(name) of a str without quotes or escapes: 'name'
Repr(name) == <<39>> \o name \o <<39>>

RECURSIVE Concat(_)
Concat(ss) == IF ss = <<>> THEN <<>> ELSE Head(ss) \o Concat(Tail(ss))

\* ------------------------------------------------------- bytes.decode()
\* data.decode() of file_server.py:56 (UTF-8, errors='strict'): the text, or
\* the message of the UnicodeDecodeError it raises.  One- and two-byte
\* sequences, the forms of the modelled alphabet (bytes below 0xE0).
Utf8Error(data, i, why) ==
    [ok |-> FALSE, text |-> <<>>,
     err |-> s_utf8_1 \o Hex2(data[i]) \o s_utf8_2 \o DecStr(i - 1) \o why]

RECURSIVE Utf8From(_, _, _)
Utf8From(data, i, acc) ==
    IF i > Len(data) THEN [ok |-> TRUE, text |-> acc, err |-> <<>>]
    ELSE IF data[i] < 128 THEN Utf8From(data, i + 1, Append(acc, data[i]))
    ELSE IF data[i] < 194 \/ data[i] >= 224 THEN Utf8Error(data, i, s_utf8_start)
    ELSE IF i = Len(data) THEN Utf8Error(data, i, s_utf8_eod)
    ELSE IF data[i + 1] < 128 \/ data[i + 1] >= 192
         THEN Utf8Error(data, i, s_utf8_cont)
    ELSE Utf8From(data, i + 2,
                  Append(acc, (data[i] - 192) * 64 + (data[i + 1] - 128)))

Utf8Decode(data) == Utf8From(data, 1, <<>>)

\* str.encode(): the UTF-8 bytes of a text of code points below 0x800
RECURSIVE Utf8Encode(_)
Utf8Encode(s) ==
    IF s = <<>> THEN <<>>
    ELSE (IF Head(s) < 128 THEN <<Head(s)>>
          ELSE <<192 + (Head(s) \div 64), 128 + (Head(s) % 64)>>)
         \o Utf8Encode(Tail(s))

\* ---------------------------------------------------------------- base64
\* the value of a base64 digit, 64 for a character outside the alphabet
B64Value(c) ==
    IF c >= 65 /\ c <= 90 THEN c - 65
    ELSE IF c >= 97 /\ c <= 122 THEN c - 71
    ELSE IF c >= 48 /\ c <= 57 THEN c + 4
    ELSE IF c = 43 THEN 62
    ELSE IF c = 47 THEN 63
    ELSE 64

\* binascii.a2b_base64 (non-strict): characters outside the alphabet are
\* skipped, a complete pad sequence ends the input, and leftover digits that
\* do not fill a byte group raise binascii.Error.
\*   quad: digits seen of the current group of four; left: their pending bits
\*   pads: '=' seen in a row; n: digits seen in all
RECURSIVE A2B(_, _, _, _, _, _, _)
A2B(s, i, quad, left, pads, n, out) ==
    IF i > Len(s) THEN
        IF quad = 0 THEN [ok |-> TRUE, bytes |-> out, err |-> <<>>]
        ELSE IF quad = 1
             THEN [ok |-> FALSE, bytes |-> <<>>,
                   err |-> s_bad_count_1 \o DecStr(n) \o s_bad_count_2]
        ELSE [ok |-> FALSE, bytes |-> <<>>, err |-> s_bad_padding]
    ELSE IF s[i] = 61 THEN
        IF quad >= 2 /\ quad + pads + 1 >= 4
        THEN [ok |-> TRUE, bytes |-> out, err |-> <<>>]
        ELSE A2B(s, i + 1, quad, left, pads + 1, n, out)
    ELSE IF B64Value(s[i]) = 64 THEN A2B(s, i + 1, quad, left, pads, n, out)
    ELSE LET v == B64Value(s[i])
         IN  CASE quad = 0 -> A2B(s, i + 1, 1, v, 0, n + 1, out)
               [] quad = 1 -> A2B(s, i + 1, 2, v % 16, 0, n + 1,
                                  Append(out, left * 4 + (v \div 16)))
               [] quad = 2 -> A2B(s, i + 1, 3, v % 4, 0, n + 1,
                                  Append(out, left * 16 + (v \div 4)))
               [] quad = 3 -> A2B(s, i + 1, 0, 0, 0, n + 1,
                                  Append(out, left * 64 + v))

\* base64.b64decode(line) of a str: the str is first encoded as ASCII
\* (ValueError on a non-ASCII character), then decoded by a2b_base64.
b64decode(line) ==
    IF \E i \in 1..Len(line) : line[i] > 127
    THEN [ok |-> FALSE, bytes |-> <<>>, err |-> s_not_ascii]
    ELSE A2B(line, 1, 0, 0, 0, 0, <<>>)

\* base64.b64encode(data).decode(): three bytes to four digits, '=' padding
RECURSIVE b64encode(_)
b64encode(data) ==
    LET D(v) == B64Alphabet[v + 1]
    IN  IF data = <<>> THEN <<>>
        ELSE IF Len(data) = 1
             THEN <<D(data[1] \div 4), D((data[1] % 4) * 16), 61, 61>>
        ELSE IF Len(data) = 2
             THEN <<D(data[1] \div 4),
                    D((data[1] % 4) * 16 + (data[2] \div 16)),
                    D((data[2] % 16) * 4), 61>>
        ELSE <<D(data[1] \div 4),
               D((data[1] % 4) * 16 + (data[2] \div 16)),
               D((data[2] % 16) * 4 + (data[3] \div 64)),
               D(data[3] % 64)>> \o b64encode(Drop(data, 3))

\* ------------------------------------------------------------- json.dumps
\* '%04x' % c
Hex4(c) == Hex2(c \div 256) \o Hex2(c % 256)

\* one character inside a JSON string (ensure_ascii=True)
JsonChar(c) ==
    CASE c = 34 -> <<92, 34>>
      [] c = 92 -> <<92, 92>>
      [] c = 10 -> <<92, 110>>
      [] c = 13 -> <<92, 114>>
      [] c = 9  -> <<92, 116>>
      [] c < 32 /\ c \notin {9, 10, 13} -> <<92, 117>> \o Hex4(c)
      [] c > 126 -> <<92, 117>> \o Hex4(c)
      [] OTHER -> <<c>>

RECURSIVE JsonEscape(_)
JsonEscape(s) == IF s = <<>> THEN <<>> ELSE JsonChar(Head(s)) \o JsonEscape(Tail(s))

JsonStr(s) == <<34>> \o JsonEscape(s) \o <<34>>

\* the items of a list or dict joined by ', '
RECURSIVE JsonJoin(_)
JsonJoin(items) ==
    IF items = <<>> THEN <<>>
    ELSE IF Len(items) = 1 THEN items[1]
    ELSE items[1] \o <<44, 32>> \o JsonJoin(Tail(items))

\* Python values: [t |-> "none"], [t |-> "str", v |-> text],
\* [t |-> "list", v |-> <<text, ...>>], [t |-> "dict", v |-> <<<<key, value>>, ...>>]
PyNone == [t |-> "none", v |-> <<>>]
PyStr(s) == [t |-> "str", v |-> s]
PyList(l) == [t |-> "list", v |-> l]
PyDict(pairs) == [t |-> "dict", v |-> pairs]

RECURSIVE JsonDumps(_)
JsonDumps(val) ==
    CASE val.t = "none" -> <<110, 117, 108, 108>>
      [] val.t = "str"  -> JsonStr(val.v)
      [] val.t = "list" ->
            <<91>> \o JsonJoin([i \in 1..Len(val.v) |-> JsonStr(val.v[i])]) \o <<93>>
      [] val.t = "dict" ->
            <<123>>
            \o JsonJoin([i \in 1..Len(val.v) |->
                           JsonStr(val.v[i][1]) \o <<58, 32>> \o JsonDumps(val.v[i][2])])
            \o <<125>>

\* ------------------------------------------------------------ file system
\* A directory is a function from the names of its files to their bytes.
Put(dir, name, bytes) ==
    [n \in DOMAIN dir \cup {name} |-> IF n = name THEN bytes ELSE dir[n]]

Remove(dir, name) == [n \in DOMAIN dir \ {name} |-> dir[n]]

NoFiles == [n \in {} |-> <<>>]

\* os.path.exists(path) / open(path, 'rb').read(): a relative name is looked
\* up in the working directory files/, an absolute one in the temp directory
Exists(files, tmpdir, path) == path \in DOMAIN files \/ path \in DOMAIN tmpdir

ReadFile(files, tmpdir, path) ==
    IF path \in DOMAIN files THEN files[path] ELSE tmpdir[path]

\* the order in which a directory lists its names: fixed for a given directory
RECURSIVE LexLess(_, _)
LexLess(a, b) ==
    IF a = <<>> THEN b # <<>>
    ELSE IF b = <<>> THEN FALSE
    ELSE IF Head(a) # Head(b) THEN Head(a) < Head(b)
    ELSE LexLess(Tail(a), Tail(b))

RECURSIVE Listing(_)
Listing(names) ==
    IF names = {} THEN <<>>
    ELSE LET first == CHOOSE n \in names : \A o \in names \ {n} : LexLess(n, o)
         IN  <<first>> \o Listing(names \ {first})

\* ------------------------------------------------------ file_interface.py
detect_file_type(file_bytes) ==
    LET header == Take(file_bytes, 16)
    IN  IF StartsWith(header, m_png) THEN s_png
        ELSE IF StartsWith(header, m_jpeg) THEN s_jpeg
        ELSE IF StartsWith(header, m_pdf) THEN s_pdf
        ELSE IF StartsWith(header, m_gif87) \/ StartsWith(header, m_gif89) THEN s_gif
        ELSE IF StartsWith(header, m_zip) THEN s_zip
        ELSE IF StartsWith(header, m_id3) \/ Take(header, 2) = m_mp3 THEN s_mpeg
        ELSE <<>>

\* hashlib.md5(file_bytes).hexdigest(), idealised as a collision-free digest:
\* the hexadecimal rendering of the length and the bytes.  What the code relies
\* on is kept: a non-empty lower-case hex name that is a function of the bytes.
md5_hexdigest(file_bytes) ==
    Hex2(Len(file_bytes)) \o Concat([i \in 1..Len(file_bytes) |-> Hex2(file_bytes[i])])

\* glob('*.*'): the names with a dot in them that do not start with one
GlobStarDotStar(files) ==
    Listing({n \in DOMAIN files : Contains(n, 46) /\ Head(n) # 46})

ErrorDict(msg) == PyDict(<<<<k_status, PyStr(s_ERROR)>>, <<k_data, PyStr(msg)>>>>)

\* Each method returns its dict and the file system it leaves.
Outcome(res, files, tmpdir) == [res |-> res, files |-> files, tmpdir |-> tmpdir]

FileInterface_list(files, tmpdir, params) ==
    Outcome(PyDict(<<<<k_status, PyStr(s_OK)>>,
                     <<k_data, PyList(GlobStarDotStar(files))>>>>),
            files, tmpdir)

FileInterface_get(files, tmpdir, params) ==
    IF params = <<>> THEN Outcome(ErrorDict(s_index_error), files, tmpdir)
    ELSE LET filename == params[1]
         IN  IF filename = <<>> THEN Outcome(PyNone, files, tmpdir)
             ELSE IF ~Exists(files, tmpdir, filename)
                  THEN Outcome(ErrorDict(s_enoent \o Repr(filename)), files, tmpdir)
             ELSE Outcome(PyDict(<<<<k_status, PyStr(s_OK)>>,
                                   <<k_data_namafile, PyStr(filename)>>,
                                   <<k_data_file,
                                     PyStr(b64encode(ReadFile(files, tmpdir, filename)))>>>>),
                          files, tmpdir)

\* io is what the disk does to the write of the stored file: "ok", "open_fails"
\* (open(..., 'wb') raises, nothing is created) or "write_fails" (the file is
\* created or truncated and the write raises).
StoreOutcomes == {"ok", "open_fails", "write_fails"}

FileInterface_upload(files, tmpdir, params, io) ==
    IF params = <<>> THEN Outcome(ErrorDict(s_index_error), files, tmpdir)
    ELSE LET temp_filepath == params[1]
         IN  IF ~Exists(files, tmpdir, temp_filepath)
             THEN Outcome(ErrorDict(s_enoent \o Repr(temp_filepath)), files, tmpdir)
             ELSE LET file_bytes == ReadFile(files, tmpdir, temp_filepath)
                      hashed_name == md5_hexdigest(file_bytes)
                      file_type == detect_file_type(file_bytes)
                      name == hashed_name \o file_type
                  IN  CASE io = "open_fails" ->
                             Outcome(ErrorDict(s_eacces \o Repr(name)), files, tmpdir)
                        [] io = "write_fails" ->
                             Outcome(ErrorDict(s_enospc), Put(files, name, <<>>), tmpdir)
                        [] OTHER ->
                             Outcome(PyDict(<<<<k_status, PyStr(s_OK)>>,
                                              <<k_message, PyStr(s_uploaded)>>,
                                              <<k_data,
                                                PyDict(<<<<k_file_path, PyStr(name)>>>>)>>>>),
                                     Put(files, name, file_bytes), tmpdir)

\* (mutant) os.remove of a missing file is not an error
FileInterface_delete_ignores_missing(files, tmpdir, params) ==
    IF params = <<>> THEN Outcome(ErrorDict(s_index_error), files, tmpdir)
    ELSE LET filename == params[1]
         IN  IF filename = <<>> THEN Outcome(PyNone, files, tmpdir)
             ELSE Outcome(PyDict(<<<<k_status, PyStr(s_OK)>>,
                                   <<k_message, PyStr(s_deleted)>>>>),
                          Remove(files, filename), Remove(tmpdir, filename))

FileInterface_delete(files, tmpdir, params) ==
    IF params = <<>> THEN Outcome(ErrorDict(s_index_error), files, tmpdir)
    ELSE LET filename == params[1]
         IN  IF filename = <<>> THEN Outcome(PyNone, files, tmpdir)
             ELSE IF ~Exists(files, tmpdir, filename)
                  THEN Outcome(ErrorDict(s_enoent \o Repr(filename)), files, tmpdir)
             ELSE Outcome(PyDict(<<<<k_status, PyStr(s_OK)>>,
                                   <<k_message, PyStr(s_deleted)>>>>),
                          Remove(files, filename), Remove(tmpdir, filename))

\* ------------------------------------------- file_protocol.FileProtocol
\* The module file_protocol is not among the sources; proses_string follows
\* the Command Codec and Request Dispatcher of the specification: the line is
\* split on whitespace, the first token is the verb (matched exactly), the
\* rest are the arguments, and the result is serialised as JSON.
Dispatch(verb, args, files, tmpdir, io) ==
    CASE verb = s_LIST   -> FileInterface_list(files, tmpdir, args)
      [] verb = s_GET    -> FileInterface_get(files, tmpdir, args)
      [] verb = s_DELETE -> FileInterface_delete(files, tmpdir, args)
      [] verb = s_UPLOAD -> FileInterface_upload(files, tmpdir, args, io)
      [] OTHER -> Outcome(ErrorDict(s_unknown \o verb), files, tmpdir)

proses_string(line, files, tmpdir, io) ==
    LET c == Split(line)
        out == IF c = <<>> THEN Outcome(ErrorDict(s_empty), files, tmpdir)
               ELSE Dispatch(Head(c), Tail(c), files, tmpdir, io)
    IN  [response |-> JsonDumps(out.res), files |-> out.files, tmpdir |-> out.tmpdir]

\* ============================================================== the state
VARIABLES
    buffer,       \* run: text received and not yet split into frames
    uploading,    \* run: TRUE in UPLOADING mode, FALSE in COMMAND mode
    temp_file,    \* run: "None", or the temp file object, "open" or "closed"
    temp_path,    \* run: the temp file's path, '' when there is none
    pc,           \* "run" inside the try block of run, "closed" once run has returned
    files,        \* the working directory files/ (canonical storage)
    tmpdir,       \* the directory TMP_DIR
    tmp_seq,      \* temp files created so far (NamedTemporaryFile never reuses a name)
    sent,         \* the payloads sendall has delivered to the client, in order
    unread,       \* bytes the client has written that recv has not returned yet
    peer,         \* "alive", or "reset" once the client's end of the socket is gone
    script,       \* the frames the client set out to send
    pieces,       \* the pieces of the file the client uploads in the round trip
    faults,       \* what the environment did to the handler: "store_io"
    files_at_upload,  \* files/ as it was when the current upload began
    ops,          \* what the handler's last step did, in order: <<operation, text>>
    mode,         \* server_pool --mode: "thread" (ThreadedServer) or "process" (ProcessServer)
    max_workers,  \* ThreadedServer.max_workers, the size of the executor's pool
    accept_loop,  \* the while True loop of serve_forever: "accepting" or "stopped"
    launcher,     \* server_pool.main: "running", or "exiting" after a signal
    backlog,      \* connections the kernel has completed and accept has not returned yet
    work_queue,   \* the executor's queue: handlers submitted and not yet started
    conns,        \* the server's connections: client, socket and handler of each
    call          \* the client function under way: where it is, what it has read, its result

\* the server shell and its connections
shellvars == <<mode, max_workers, accept_loop, launcher, backlog, work_queue, conns>>

\* one handler followed on its own
handlervars == <<buffer, uploading, temp_file, temp_path, pc, sent, unread, peer,
                 script, pieces, files_at_upload, ops>>

vars == <<buffer, uploading, temp_file, temp_path, pc, files, tmpdir, tmp_seq,
          sent, unread, peer, script, pieces, faults, files_at_upload, ops,
          mode, max_workers, accept_loop, launcher, backlog, work_queue, conns,
          call>>

\* no client function is followed: the client is its script
NoResult == [kind |-> "None", status |-> <<>>, data |-> <<>>]

NoCall == [at |-> "none", data_buffer |-> <<>>, got |-> 0, result |-> NoResult]

\* The handler's side of the state as one value, so that a step of run is a
\* function from one such value to the next.
Session ==
    [buffer |-> buffer, uploading |-> uploading, temp_file |-> temp_file,
     temp_path |-> temp_path, pc |-> pc, files |-> files, tmpdir |-> tmpdir,
     tmp_seq |-> tmp_seq, sent |-> sent, ops |-> ops]

Log(m, op, text) == [m EXCEPT !.ops = Append(@, <<op, text>>)]

\* ------------------------------------------------- ClientHandler (server)
\* (mutant) the terminator only after a JSON envelope
_send_response_json_only(message) ==
    IF message # <<>> /\ Head(message) = 123 THEN message \o Terminator ELSE message

\* _send_response: the payload handed to conn.sendall
_send_response(message) == message \o Terminator

\* conn.sendall(payload) returning, and raising because the peer is gone
SendOk(m, message) ==
    Log([m EXCEPT !.sent = Append(@, _send_response(message))],
        "send", _send_response(message))

SendFails(m, message) == Log(m, "send_fails", _send_response(message))

\* tempfile.NamedTemporaryFile(delete=False, dir=TMP_DIR).name
TempName(n) == TMP_DIR \o <<47, 116, 109, 112>> \o DecStr(n)

\* (mutant) the finally block without the removal of the temp file
Finally_keeps_temp(m) ==
    LET m1 == IF m.temp_file = "open"
              THEN Log([m EXCEPT !.temp_file = "closed"], "close_tmp", m.temp_path)
              ELSE m
    IN  Log([m1 EXCEPT !.pc = "closed"], "close_conn", <<>>)

\* (mutant) the finally block empties the temp directory
Finally_clears_tmpdir(m) ==
    LET m1 == IF m.temp_file = "open"
              THEN Log([m EXCEPT !.temp_file = "closed"], "close_tmp", m.temp_path)
              ELSE m
        m2 == IF m1.temp_path # <<>> /\ m1.temp_path \in DOMAIN m1.tmpdir
              THEN Log([m1 EXCEPT !.tmpdir = NoFiles], "remove_tmp", m1.temp_path)
              ELSE m1
    IN  Log([m2 EXCEPT !.pc = "closed"], "close_conn", <<>>)

\* the finally block of run
Finally(m) ==
    LET m1 == IF m.temp_file = "open"
              THEN Log([m EXCEPT !.temp_file = "closed"], "close_tmp", m.temp_path)
              ELSE m
        m2 == IF m1.temp_path # <<>> /\ m1.temp_path \in DOMAIN m1.tmpdir
              THEN Log([m1 EXCEPT !.tmpdir = Remove(@, m1.temp_path)],
                       "remove_tmp", m1.temp_path)
              ELSE m1
    IN  Log([m2 EXCEPT !.pc = "closed"], "close_conn", <<>>)

\* (mutant) the error response without its closing quote and brace
Except_unclosed(m, err, alive) ==
    LET error_msg == s_err_head \o err
    IN  Finally(IF alive THEN SendOk(m, error_msg) ELSE SendFails(m, error_msg))

\* the except block of run, entered with the exception's message, then finally
\* (if sending the error response raises too, finally still runs)
Except(m, err, alive) ==
    LET error_msg == s_err_head \o err \o s_err_tail
    IN  Finally(IF alive THEN SendOk(m, error_msg) ELSE SendFails(m, error_msg))

\* (mutant) the ENDUPLOAD branch with the temp file deleted before the dispatch
EndUpload_removes_first(m, alive, io) ==
    LET command == s_UPLOAD \o SP \o m.temp_path
        m1 == Log(Log([m EXCEPT !.temp_file = "closed",
                                !.tmpdir = Remove(@, m.temp_path)],
                      "close_tmp", m.temp_path),
                  "remove_tmp", m.temp_path)
        r  == proses_string(command, m1.files, m1.tmpdir, io)
        m2 == Log([m1 EXCEPT !.files = r.files, !.tmpdir = r.tmpdir],
                  "dispatch", command)
    IN  IF ~alive THEN Except(SendFails(m2, r.response), s_epipe, alive)
        ELSE [SendOk(m2, r.response) EXCEPT !.uploading = FALSE,
                                            !.temp_file = "None",
                                            !.temp_path = <<>>]

\* the ENDUPLOAD branch (lines 62-69)
EndUpload(m, alive, io) ==
    LET command == s_UPLOAD \o SP \o m.temp_path
        m1 == Log([m EXCEPT !.temp_file = "closed"], "close_tmp", m.temp_path)
        r  == proses_string(command, m1.files, m1.tmpdir, io)
        m2 == Log([m1 EXCEPT !.files = r.files, !.tmpdir = r.tmpdir],
                  "dispatch", command)
    IN  IF ~alive THEN Except(SendFails(m2, r.response), s_epipe, alive)
        ELSE LET m3 == SendOk(m2, r.response)
             IN  IF m.temp_path \notin DOMAIN m3.tmpdir
                 THEN Except(m3, s_enoent \o Repr(m.temp_path), alive)
                 ELSE Log([m3 EXCEPT !.tmpdir = Remove(@, m.temp_path),
                                     !.uploading = FALSE,
                                     !.temp_file = "None",
                                     !.temp_path = <<>>],
                          "remove_tmp", m.temp_path)

\* (mutant) a chunk that is not base64 is dropped and the upload goes on
WriteChunk_skips_bad(m, line, alive) ==
    LET d == b64decode(line)
    IN  IF ~d.ok THEN m
        ELSE Log([m EXCEPT !.tmpdir[m.temp_path] = @ \o d.bytes], "write_tmp", d.bytes)

\* (mutant) each chunk replaces the temp file's content
WriteChunk_overwrites(m, line, alive) ==
    LET d == b64decode(line)
    IN  IF ~d.ok THEN Except(m, d.err, alive)
        ELSE Log([m EXCEPT !.tmpdir[m.temp_path] = d.bytes], "write_tmp", d.bytes)

\* (mutant) every chunk written is acknowledged with a response
WriteChunk_acks(m, line, alive) ==
    LET d == b64decode(line)
    IN  IF ~d.ok THEN Except(m, d.err, alive)
        ELSE SendOk(Log([m EXCEPT !.tmpdir[m.temp_path] = @ \o d.bytes],
                        "write_tmp", d.bytes), s_OK)

\* the chunk branch (line 71)
WriteChunk(m, line, alive) ==
    LET d == b64decode(line)
    IN  IF ~d.ok THEN Except(m, d.err, alive)
        ELSE Log([m EXCEPT !.tmpdir[m.temp_path] = @ \o d.bytes], "write_tmp", d.bytes)

\* the UPLOAD branch (lines 74-82)
BeginUpload(m, alive) ==
    LET name == TempName(m.tmp_seq + 1)
        m1 == Log([m EXCEPT !.uploading = TRUE,
                            !.temp_file = "open",
                            !.temp_path = name,
                            !.tmp_seq = @ + 1,
                            !.tmpdir = Put(@, name, <<>>)],
                  "create_tmp", name)
    IN  IF alive THEN SendOk(m1, READY)
        ELSE Except(SendFails(m1, READY), s_epipe, alive)

\* (mutant) an ERROR envelope from the dispatcher is raised as an exception
Command_raises_on_error(m, line, alive, io) ==
    LET r  == proses_string(line, m.files, m.tmpdir, io)
        m1 == Log([m EXCEPT !.files = r.files, !.tmpdir = r.tmpdir], "dispatch", line)
    IN  IF StartsWith(r.response, s_json_status_error)
        THEN Except(m1, r.response, alive)
        ELSE IF alive THEN SendOk(m1, r.response)
        ELSE Except(SendFails(m1, r.response), s_epipe, alive)

\* the command branch (lines 84-85)
Command(m, line, alive, io) ==
    LET r  == proses_string(line, m.files, m.tmpdir, io)
        m1 == Log([m EXCEPT !.files = r.files, !.tmpdir = r.tmpdir], "dispatch", line)
    IN  IF alive THEN SendOk(m1, r.response)
        ELSE Except(SendFails(m1, r.response), s_epipe, alive)

\* (mutant) a frame that reads like a command is dispatched in UPLOADING mode too
ProcessLine_commands_in_upload(m, alive, io) ==
    LET i    == IndexOf(m.buffer, 10)
        line == Strip(SubSeq(m.buffer, 1, i - 1))
        m0   == [m EXCEPT !.buffer = Drop(@, i),
                          !.ops = <<<<IF m.uploading THEN "frame_uploading"
                                      ELSE "frame_command", line>>>>]
    IN  IF m.uploading /\ line = s_ENDUPLOAD THEN EndUpload(m0, alive, io)
        ELSE IF m.uploading /\ ~StartsWith(line, s_LIST) THEN WriteChunk(m0, line, alive)
        ELSE IF ~m.uploading /\ StartsWith(line, s_UPLOAD) THEN BeginUpload(m0, alive)
        ELSE Command(m0, line, alive, io)

\* (mutant) 'UPLOAD' in line instead of line.startswith('UPLOAD')
ProcessLine_upload_anywhere(m, alive, io) ==
    LET i    == IndexOf(m.buffer, 10)
        line == Strip(SubSeq(m.buffer, 1, i - 1))
        m0   == [m EXCEPT !.buffer = Drop(@, i),
                          !.ops = <<<<IF m.uploading THEN "frame_uploading"
                                      ELSE "frame_command", line>>>>]
    IN  IF m.uploading THEN
            IF line = s_ENDUPLOAD THEN EndUpload(m0, alive, io)
            ELSE WriteChunk(m0, line, alive)
        ELSE IF Find(line, s_UPLOAD) > 0 THEN BeginUpload(m0, alive)
        ELSE Command(m0, line, alive, io)

\* (mutant) line == 'UPLOAD' instead of line.startswith('UPLOAD')
ProcessLine_upload_exact(m, alive, io) ==
    LET i    == IndexOf(m.buffer, 10)
        line == Strip(SubSeq(m.buffer, 1, i - 1))
        m0   == [m EXCEPT !.buffer = Drop(@, i),
                          !.ops = <<<<IF m.uploading THEN "frame_uploading"
                                      ELSE "frame_command", line>>>>]
    IN  IF m.uploading THEN
            IF line = s_ENDUPLOAD THEN EndUpload(m0, alive, io)
            ELSE WriteChunk(m0, line, alive)
        ELSE IF line = s_UPLOAD THEN BeginUpload(m0, alive)
        ELSE Command(m0, line, alive, io)

\* (mutant) a frame that begins with UPLOAD starts a new upload in either mode
ProcessLine_upload_restarts(m, alive, io) ==
    LET i    == IndexOf(m.buffer, 10)
        line == Strip(SubSeq(m.buffer, 1, i - 1))
        m0   == [m EXCEPT !.buffer = Drop(@, i),
                          !.ops = <<<<IF m.uploading THEN "frame_uploading"
                                      ELSE "frame_command", line>>>>]
    IN  IF StartsWith(line, s_UPLOAD) THEN BeginUpload(m0, alive)
        ELSE IF m.uploading THEN
            IF line = s_ENDUPLOAD THEN EndUpload(m0, alive, io)
            ELSE WriteChunk(m0, line, alive)
        ELSE Command(m0, line, alive, io)

\* one turn of the inner loop (lines 57-85) on a buffer that holds a '\n'
ProcessLine(m, alive, io) ==
    LET i    == IndexOf(m.buffer, 10)
        line == Strip(SubSeq(m.buffer, 1, i - 1))
        m0   == [m EXCEPT !.buffer = Drop(@, i),
                          !.ops = <<<<IF m.uploading THEN "frame_uploading"
                                      ELSE "frame_command", line>>>>]
    IN  IF m.uploading THEN
            IF line = s_ENDUPLOAD THEN EndUpload(m0, alive, io)
            ELSE WriteChunk(m0, line, alive)
        ELSE IF StartsWith(line, s_UPLOAD) THEN BeginUpload(m0, alive)
        ELSE Command(m0, line, alive, io)

\* recv returned data (lines 52-56): decode and append, or the decode raises
Received(m, data, alive) ==
    LET d  == Utf8Decode(data)
        m0 == [m EXCEPT !.ops = <<<<"recv", <<>>>>>>]
    IN  IF d.ok THEN [m0 EXCEPT !.buffer = @ \o d.text]
        ELSE Except(m0, d.err, alive)

\* (mutant) what is left in the buffer at the end is handled as a last frame
ReceivedEOF_flushes(m) ==
    LET m0 == [m EXCEPT !.ops = <<<<"recv", <<>>>>>>]
        m1 == IF m.buffer = <<>> THEN m0
              ELSE ProcessLine([m0 EXCEPT !.buffer = @ \o NL], TRUE, "ok")
    IN  IF m1.pc = "closed" THEN m1 ELSE Finally(m1)

\* recv returned b'' (lines 53-54): break, then finally
ReceivedEOF(m) == Finally([m EXCEPT !.ops = <<<<"recv", <<>>>>>>])

\* recv raised ConnectionResetError
ReceiveFailed(m) == Except([m EXCEPT !.ops = <<<<"recv_fails", <<>>>>>>], s_econnreset, FALSE)

\* ---------------------------------------------------------------- actions
Apply(m) ==
    /\ buffer' = m.buffer
    /\ uploading' = m.uploading
    /\ temp_file' = m.temp_file
    /\ temp_path' = m.temp_path
    /\ pc' = m.pc
    /\ files' = m.files
    /\ tmpdir' = m.tmpdir
    /\ tmp_seq' = m.tmp_seq
    /\ sent' = m.sent
    /\ ops' = m.ops

HasFrame == Contains(buffer, 10)

\* the frame the inner loop splits off next: line.strip() of lines 58-59
NextLine == Strip(SubSeq(buffer, 1, IndexOf(buffer, 10) - 1))

\* conn.recv(BUFFER_SIZE) returns the next k bytes the client has written
Recv ==
    /\ pc = "run" /\ ~HasFrame /\ peer = "alive" /\ unread # <<>>
    /\ \E k \in 1..Min(Len(unread), BUFFER_SIZE) :
          /\ Apply(Received(Session, Take(unread, k), TRUE))
          /\ unread' = Drop(unread, k)
    /\ UNCHANGED <<peer, script, pieces, faults, files_at_upload>>
    /\ UNCHANGED <<shellvars, call>>

\* conn.recv returns b'': the client has closed and everything was read
RecvEOF ==
    /\ pc = "run" /\ ~HasFrame /\ peer = "alive" /\ unread = <<>>
    /\ Apply(ReceivedEOF(Session))
    /\ UNCHANGED <<unread, peer, script, pieces, faults, files_at_upload>>
    /\ UNCHANGED <<shellvars, call>>

\* conn.recv raises: the connection was reset
RecvFails ==
    /\ pc = "run" /\ ~HasFrame /\ peer = "reset"
    /\ Apply(ReceiveFailed(Session))
    /\ UNCHANGED <<unread, peer, script, pieces, faults, files_at_upload>>
    /\ UNCHANGED <<shellvars, call>>

\* the inner loop handles the next frame of the buffer
ProcessFrame ==
    /\ pc = "run" /\ HasFrame
    /\ \E io \in IF uploading /\ NextLine = s_ENDUPLOAD THEN StoreOutcomes ELSE {"ok"} :
          /\ Apply(ProcessLine(Session, peer = "alive", io))
          /\ faults' = IF io = "ok" THEN faults ELSE faults \cup {"store_io"}
    /\ files_at_upload' = IF ~uploading /\ StartsWith(NextLine, s_UPLOAD)
                          THEN files ELSE files_at_upload
    /\ UNCHANGED <<unread, peer, script, pieces>>
    /\ UNCHANGED <<shellvars, call>>

\* the client's end goes away abruptly: what was not read yet is lost
PeerReset ==
    /\ pc = "run" /\ peer = "alive"
    /\ peer' = "reset"
    /\ unread' = <<>>
    /\ UNCHANGED <<buffer, uploading, temp_file, temp_path, pc, files, tmpdir,
                   tmp_seq, sent, script, pieces, faults, files_at_upload, ops>>
    /\ UNCHANGED <<shellvars, call>>

Next == Recv \/ RecvEOF \/ RecvFails \/ ProcessFrame \/ PeerReset

\* ------------------------------------------------------------ the clients
\* texts of the client's frames
s_a_b == <<97, 46, 98>>  \* 'a.b'
s_e_acute == <<233>>  \* 'é' (two bytes on the wire: 0xC3 0xA9)
s_hi == <<104, 105>>  \* b'hi'

\* files/ when the server starts: one stored file
InitialFiles == Put(NoFiles, s_a_b, s_hi)

\* the frames a client may send, as file_client_cli.py builds them
Catalogue ==
    { s_LIST,
      s_GET \o SP \o s_a_b,
      s_GET \o SP \o s_e_acute,
      s_GET,
      s_DELETE \o SP \o s_a_b,
      s_UPLOAD,
      s_UPLOAD \o SP \o s_a_b,
      s_ENDUPLOAD,
      b64encode(s_hi) }

RECURSIVE SeqsUpTo(_, _)
SeqsUpTo(S, n) ==
    IF n = 0 THEN {<<>>}
    ELSE LET shorter == SeqsUpTo(S, n - 1)
         IN  shorter \cup {Append(s, x) : s \in {t \in shorter : Len(t) = n - 1}, x \in S}

\* sock.sendall(frame.encode()) for each frame, newline-terminated
Wire(frames) == Concat([i \in 1..Len(frames) |-> Utf8Encode(frames[i] \o NL)])

\* the connections of the server shell
Conns == {"c1", "c2"}

\* a connection nobody has opened yet
NoStore == [stage |-> "none", name |-> <<>>, bytes |-> <<>>, off |-> 0]

NoConn(frames) ==
    [state |-> "idle", client |-> "open", script |-> frames,
     unread |-> <<>>, buffer |-> <<>>, uploading |-> FALSE, temp_file |-> "None",
     temp_path |-> <<>>, sent |-> <<>>, ops |-> <<>>, store |-> NoStore,
     overlapped |-> FALSE]

\* no server shell: the handler is followed on its own
NoShell ==
    /\ mode = "thread"
    /\ max_workers = 1
    /\ accept_loop = "accepting"
    /\ launcher = "running"
    /\ backlog = <<>>
    /\ work_queue = <<>>
    /\ conns = [c \in Conns |-> NoConn(<<>>)]

InitSession ==
    /\ buffer = <<>>
    /\ uploading = FALSE
    /\ temp_file = "None"
    /\ temp_path = <<>>
    /\ pc = "run"
    /\ files = InitialFiles
    /\ tmpdir = NoFiles
    /\ tmp_seq = 0
    /\ sent = <<>>
    /\ peer = "alive"
    /\ faults = {}
    /\ files_at_upload = InitialFiles
    /\ ops = <<>>
    /\ NoShell

\* one connection whose client sends any frames of the catalogue
Init ==
    /\ call = NoCall
    /\ InitSession
    /\ script \in SeqsUpTo(Catalogue, MaxFrames) \ {<<>>}
    /\ pieces = <<>>
    /\ unread = Wire(script)

Spec == Init /\ [][Next]_vars

\* the pieces a client cuts a file into
Pieces == { s_hi, <<37, 80>>, <<68, 70>>, <<255, 251, 0>>, <<0>> }

\* remote_upload followed by remote_get of the stored name
UploadScript(ps) ==
    LET B == Concat(ps)
    IN  <<s_UPLOAD>> \o [i \in 1..Len(ps) |-> b64encode(ps[i])]
        \o <<s_ENDUPLOAD, s_GET \o SP \o md5_hexdigest(B) \o detect_file_type(B)>>

\* one connection whose client uploads a file in pieces and fetches it back
InitRoundTrip ==
    /\ call = NoCall
    /\ InitSession
    /\ pieces \in SeqsUpTo(Pieces, MaxChunks)
    /\ script = UploadScript(pieces)
    /\ unread = Wire(script)

SpecRoundTrip == InitRoundTrip /\ [][Next]_vars

\* ======================================================= the properties
\* the session when run starts
StartSession ==
    [buffer |-> <<>>, uploading |-> FALSE, temp_file |-> "None", temp_path |-> <<>>,
     pc |-> "run", files |-> InitialFiles, tmpdir |-> NoFiles, tmp_seq |-> 0,
     sent |-> <<>>, ops |-> <<>>]

\* the inner loop run to its end on the frames the buffer holds
RECURSIVE Drain(_)
Drain(m) ==
    IF m.pc = "run" /\ Contains(m.buffer, 10) THEN Drain(ProcessLine(m, TRUE, "ok"))
    ELSE m

\* run on a client that is read one whole frame per recv, then end of stream
RECURSIVE FramePerRecv(_, _)
FramePerRecv(m, frames) ==
    IF m.pc = "closed" THEN m
    ELSE IF frames = <<>> THEN ReceivedEOF(m)
    ELSE FramePerRecv(Drain(Received(m, Utf8Encode(Head(frames) \o NL), TRUE)),
                      Tail(frames))

\* C1: however the client's byte stream is split across recv calls, run sends
\* the responses, and leaves the storage, that it does when every frame
\* arrives in a recv of its own (no disk fault, the client reads every reply).
C1_SameAsFramePerRecv ==
    (pc = "closed" /\ peer = "alive" /\ faults = {}) =>
        LET ref == FramePerRecv(StartSession, script)
        IN  sent = ref.sent /\ files = ref.files

\* ------------------------------------------------------ reading the state
Last(s) == s[Len(s)]

EndsWith(s, t) == Len(s) >= Len(t) /\ SubSeq(s, Len(s) - Len(t) + 1, Len(s)) = t

\* the handler's last step performed operation op
Did(log, op) == \E i \in 1..Len(log) : log[i][1] = op

\* a payload that carries an error: the dispatcher's ERROR envelope, or the
\* error response of run's except block
IsErrorPayload(p) == StartsWith(p, s_json_status_error) \/ StartsWith(p, s_err_head)

IsOkPayload(p) == StartsWith(p, s_json_status_ok)

\* this step is a turn of the inner loop: it takes the next frame off the buffer
FrameStep == pc = "run" /\ HasFrame /\ buffer' # buffer

\* the temp file's bytes if the upload frame `line` is appended to it
Appended(line) == [tmpdir EXCEPT ![temp_path] = @ \o b64decode(line).bytes]

\* --------------------------------------------------------------------- C2
\* C2 as stated: whenever run has returned with the session still UPLOADING,
\* the temp file is closed and gone and storage has no entry that was not
\* there when the upload began.
C2_NoNewEntryWhenEndedUploading ==
    (pc = "closed" /\ uploading) =>
        /\ temp_file = "closed"
        /\ temp_path \notin DOMAIN tmpdir
        /\ DOMAIN files \subseteq DOMAIN files_at_upload

\* C2 amended: whenever run has returned with the session still UPLOADING, the
\* temp file is closed and gone (no temp file is left at all), and storage is
\* as it was when the upload began unless the frame being handled when the
\* connection ended was ENDUPLOAD, whose store had already run.
C2_InterruptedUploadCleansUp ==
    (pc = "closed" /\ uploading) =>
        /\ temp_file = "closed"
        /\ temp_path \notin DOMAIN tmpdir
        /\ tmpdir = NoFiles
        /\ (ops[1] # <<"frame_uploading", s_ENDUPLOAD>> => files = files_at_upload)

\* the peer closed after UPLOAD and one chunk: the temp file was written,
\* then closed and removed by the finally block
C2_Witness ==
    /\ pc = "closed" /\ uploading /\ peer = "alive"
    /\ script = <<s_UPLOAD, b64encode(s_hi)>>
    /\ ops = <<<<"recv", <<>>>>, <<"close_tmp", temp_path>>,
               <<"remove_tmp", temp_path>>, <<"close_conn", <<>>>>>>

\* --------------------------------------------------------------------- C3
\* C3 as stated: in UPLOADING mode every frame other than ENDUPLOAD is
\* decoded and appended to the temp file, the upload goes on, and the frame
\* never reaches the dispatcher; in COMMAND mode no frame is written to a
\* temp file.
C3_EveryUploadFrameAppended ==
    [][ FrameStep =>
          /\ (uploading /\ NextLine # s_ENDUPLOAD) =>
                /\ tmpdir' = Appended(NextLine)
                /\ uploading' /\ pc' = "run"
                /\ ~Did(ops', "dispatch") /\ files' = files
          /\ ~uploading =>
                /\ ~Did(ops', "write_tmp")
                /\ \A p \in DOMAIN tmpdir' : tmpdir'[p] = <<>> ]_vars

\* C3 amended: in UPLOADING mode only ENDUPLOAD (after strip) returns the
\* session to COMMAND mode; every other frame goes to the base64 decoder and
\* never to the dispatcher: if it decodes, its bytes are appended to the temp
\* file and the upload goes on, and if it does not, the connection is ended
\* and the temp file removed.  In COMMAND mode no frame is written to a temp
\* file.
C3_UploadFramesAreData ==
    [][ FrameStep =>
          /\ (uploading /\ ~uploading') => NextLine = s_ENDUPLOAD
          /\ (uploading /\ NextLine # s_ENDUPLOAD) =>
                /\ ~Did(ops', "dispatch") /\ files' = files
                /\ IF b64decode(NextLine).ok
                   THEN /\ tmpdir' = Appended(NextLine)
                        /\ ops' = <<<<"frame_uploading", NextLine>>,
                                    <<"write_tmp", b64decode(NextLine).bytes>>>>
                        /\ uploading' /\ pc' = "run" /\ temp_file' = "open"
                   ELSE /\ pc' = "closed"
                        /\ tmpdir' = Remove(tmpdir, temp_path)
          /\ ~uploading =>
                /\ ~Did(ops', "write_tmp")
                /\ \A p \in DOMAIN tmpdir' : tmpdir'[p] = <<>> ]_vars

\* LIST arrived in UPLOADING mode and its base64 value is in the temp file
C3_Witness ==
    /\ pc = "run" /\ uploading
    /\ ops = <<<<"frame_uploading", s_LIST>>, <<"write_tmp", <<44, 132, 147>>>>>>
    /\ tmpdir[temp_path] = <<44, 132, 147>>

\* --------------------------------------------------------------------- C4
\* the path of the temp file of the upload in progress or just ended
LastTemp == TempName(tmp_seq)

\* C4: a step that handles ENDUPLOAD in UPLOADING mode closes the temp file,
\* then dispatches UPLOAD with the temp path, then sends the envelope the
\* dispatcher returned, then deletes the temp file and is back in COMMAND mode
\* with no temp file left, whether the store succeeded or failed; if the
\* envelope cannot be sent the temp file is deleted all the same, by the
\* finally block.  The frame after a completed ENDUPLOAD is handled as a command.
C4_EndUploadState ==
    (ops # <<>> /\ ops[1] = <<"frame_uploading", s_ENDUPLOAD>>) =>
        /\ Len(ops) >= 5
        /\ ops[2] = <<"close_tmp", LastTemp>>
        /\ ops[3] = <<"dispatch", s_UPLOAD \o SP \o LastTemp>>
        /\ ops[4][1] \in {"send", "send_fails"}
        /\ IsOkPayload(ops[4][2]) \/ IsErrorPayload(ops[4][2])
        /\ EndsWith(ops[4][2], Terminator)
        /\ LastTemp \notin DOMAIN tmpdir
        /\ IF ops[4][1] = "send"
           THEN /\ ops[5] = <<"remove_tmp", LastTemp>> /\ Len(ops) = 5
                /\ Last(sent) = ops[4][2]
                /\ ~uploading /\ temp_file = "None" /\ temp_path = <<>> /\ pc = "run"
           ELSE /\ Did(ops, "remove_tmp") /\ pc = "closed"

C4_NextFrameIsCommand ==
    (FrameStep /\ ops # <<>> /\ ops[1] = <<"frame_uploading", s_ENDUPLOAD>>) =>
        /\ ops'[1] = <<"frame_command", NextLine>>
        /\ Did(ops', "dispatch") \/ StartsWith(NextLine, s_UPLOAD)

\* C4: the ENDUPLOAD step does its operations in that order, in every state and step
C4_EndUploadOrder == [](C4_EndUploadState) /\ [][C4_NextFrameIsCommand]_vars

\* the store failed, the ERROR envelope was sent, the temp file is gone, and
\* the GET that followed was handled as a command
C4_Witness ==
    /\ "store_io" \in faults
    /\ Len(sent) = 3 /\ IsErrorPayload(sent[2])
    /\ ops[1][1] = "frame_command" /\ StartsWith(ops[1][2], s_GET)
    /\ ~uploading /\ tmpdir = NoFiles /\ tmp_seq = 1

\* --------------------------------------------------------------------- C5
\* the step handled a frame that begins with UPLOAD in COMMAND mode and its
\* reply was delivered
UploadAcknowledged ==
    /\ Len(ops) = 3
    /\ ops[1][1] = "frame_command" /\ StartsWith(ops[1][2], s_UPLOAD)
    /\ ops[3][1] = "send"

Verb(line) == IF Split(line) = <<>> THEN <<>> ELSE Head(Split(line))

Args(line) == IF Split(line) = <<>> THEN <<>> ELSE Tail(Split(line))

\* a command frame that is malformed or names no known verb
BadCommand(line) ==
    ~StartsWith(line, s_UPLOAD) /\ Verb(line) \notin {s_LIST, s_GET, s_DELETE}

\* a GET or DELETE frame whose file does not exist
FileNotFound(line) ==
    /\ Verb(line) \in {s_GET, s_DELETE}
    /\ Args(line) # <<>>
    /\ ~Exists(files, tmpdir, Head(Args(line)))

\* an upload chunk frame that is not base64
BadChunk(line) == line # s_ENDUPLOAD /\ ~b64decode(line).ok

\* this step sent one more payload, an error
AnsweredWithError == Len(sent') = Len(sent) + 1 /\ IsErrorPayload(Last(sent'))

\* the rest of the buffer is kept for the next turns of the loop
KeepsReading == pc' = "run" /\ buffer' = Drop(buffer, IndexOf(buffer, 10))

\* C6 as stated: a frame that raises a ProtocolError or a StorageError is
\* answered with an error and the connection survives.
C6_EveryErrorSurvives ==
    [][ (FrameStep /\ peer = "alive") =>
          /\ (~uploading /\ (BadCommand(NextLine) \/ FileNotFound(NextLine))) =>
                (AnsweredWithError /\ KeepsReading)
          /\ (uploading /\ BadChunk(NextLine)) => (AnsweredWithError /\ KeepsReading)
          /\ (faults' # faults) => (AnsweredWithError /\ KeepsReading) ]_vars

\* C6 amended: a malformed or unknown command, a file not found on GET or
\* DELETE, and an I/O failure on store are answered with an ERROR envelope and
\* the connection survives, in the mode the frame leaves it, with the rest of
\* the buffer still to be handled; bad base64 in an upload chunk is answered
\* with an error response and the handler then closes the connection.
C6_ErrorsAnswered ==
    [][ (FrameStep /\ peer = "alive") =>
          /\ (~uploading /\ (BadCommand(NextLine) \/ FileNotFound(NextLine))) =>
                /\ AnsweredWithError /\ KeepsReading
                /\ StartsWith(Last(sent'), s_json_status_error)
                /\ ~uploading'
          /\ (faults' # faults) =>
                /\ AnsweredWithError /\ KeepsReading
                /\ StartsWith(Last(sent'), s_json_status_error)
                /\ ~uploading'
          /\ (uploading /\ BadChunk(NextLine)) =>
                /\ AnsweredWithError
                /\ StartsWith(Last(sent'), s_err_head)
                /\ pc' = "closed" ]_vars

\* an unknown command was answered with an ERROR envelope and the LIST after
\* it with an OK envelope
C6_Witness ==
    /\ script = <<b64encode(s_hi), s_LIST>>
    /\ Len(sent) = 2 /\ IsErrorPayload(sent[1]) /\ IsOkPayload(sent[2])
    /\ pc = "run"

\* --------------------------------------------------------------------- C7
\* C7: when the last step handled an upload chunk that is not base64, it tried
\* to send the error response carrying the decoder's message (and sent it, if
\* the peer is there), closed and removed the temp file and closed the
\* connection; storage is as it was when the upload began, and run has
\* returned, so nothing of the upload is stored later either.
C7_BadChunkAborts ==
    (ops # <<>> /\ ops[1][1] = "frame_uploading" /\ BadChunk(ops[1][2])) =>
        LET payload == s_err_head \o b64decode(ops[1][2]).err \o s_err_tail \o Terminator
        IN  /\ ops = <<ops[1],
                       <<IF peer = "alive" THEN "send" ELSE "send_fails", payload>>,
                       <<"close_tmp", LastTemp>>,
                       <<"remove_tmp", LastTemp>>,
                       <<"close_conn", <<>>>>>>
            /\ peer = "alive" => Last(sent) = payload
            /\ pc = "closed"
            /\ temp_file = "closed"
            /\ tmpdir = NoFiles
            /\ files = files_at_upload

\* the chunk GET (three digits, so not base64) ended the upload
C7_Witness ==
    /\ ops # <<>> /\ ops[1] = <<"frame_uploading", s_GET>>
    /\ peer = "alive" /\ pc = "closed"
    /\ Last(sent) = s_err_head \o s_bad_padding \o s_err_tail \o Terminator

\* --------------------------------------------------------------------- C8
\* C8: in COMMAND mode, with the peer there, a GET or DELETE of a name that
\* does not exist is answered with an ERROR envelope naming the file, leaves
\* every file as it was and the connection open; a GET with no filename is
\* answered with the one ERROR envelope that does not depend on the storage.
C8_MissingFile ==
    [][ (FrameStep /\ peer = "alive" /\ ~uploading) =>
          /\ FileNotFound(NextLine) =>
                /\ sent' = Append(sent,
                       JsonDumps(ErrorDict(s_enoent \o Repr(Head(Args(NextLine)))))
                       \o Terminator)
                /\ files' = files /\ tmpdir' = tmpdir
                /\ KeepsReading /\ ~uploading'
          /\ Split(NextLine) = <<s_GET>> =>
                /\ sent' = Append(sent, JsonDumps(ErrorDict(s_index_error)) \o Terminator)
                /\ files' = files /\ tmpdir' = tmpdir
                /\ KeepsReading ]_vars

\* the second DELETE of a.b found no file: ERROR, and the connection is open
C8_Witness ==
    /\ script = <<s_DELETE \o SP \o s_a_b, s_DELETE \o SP \o s_a_b>>
    /\ Len(sent) = 2 /\ IsOkPayload(sent[1]) /\ IsErrorPayload(sent[2])
    /\ files = NoFiles /\ pc = "run"

\* --------------------------------------------------------------------- C9
\* C9: a frame that does not begin with UPLOAD, handled in COMMAND mode, leaves
\* the mode, the temp file handle and the temp path as they were; the mode
\* changes only in a step that handles a frame beginning with UPLOAD in
\* COMMAND mode or the frame ENDUPLOAD in UPLOADING mode.
C9_ModeChanges ==
    [][ /\ (FrameStep /\ ~uploading /\ ~StartsWith(NextLine, s_UPLOAD)) =>
              UNCHANGED <<uploading, temp_file, temp_path>>
        /\ (uploading' # uploading) =>
              /\ FrameStep
              /\ \/ ~uploading /\ StartsWith(NextLine, s_UPLOAD)
                 \/ uploading /\ NextLine = s_ENDUPLOAD ]_vars

\* a LIST and a DELETE were handled and the session is still in COMMAND mode
C9_Witness ==
    /\ script = <<s_LIST, s_DELETE \o SP \o s_a_b>>
    /\ Len(sent) = 2 /\ ops[1][1] = "frame_command"
    /\ ~uploading /\ temp_file = "None" /\ temp_path = <<>>

\* -------------------------------------------------------------------- C10
\* json.loads(payload)[key] for a string value without escapes, as the client
\* reads response['data_file'] (file_client_cli.py:94-96)
JsonField(payload, key) ==
    LET mark == JsonStr(key) \o <<58, 32, 34>>
        from == Find(payload, mark) + Len(mark)
        rest == Drop(payload, from - 1)
    IN  SubSeq(rest, 1, Find(rest, <<34>>) - 1)

\* the file the client uploads
B == Concat(pieces)

\* C10: a client sends UPLOAD, the pieces of B each base64-encoded on its own
\* and ENDUPLOAD, and then GETs the name of the envelope.  With no disk fault,
\* the envelope is OK and names a stored file that holds B, and the GET
\* envelope carries that name and base64 text that decodes to exactly B.
C10_RoundTrip ==
    (faults = {}) =>
        /\ Len(sent) >= 2 =>
              /\ IsOkPayload(sent[2])
              /\ JsonField(sent[2], k_file_path) \in DOMAIN files
              /\ files[JsonField(sent[2], k_file_path)] = B
              /\ Last(script) = s_GET \o SP \o JsonField(sent[2], k_file_path)
        /\ Len(sent) = 3 =>
              /\ IsOkPayload(sent[3])
              /\ JsonField(sent[3], k_data_namafile) = JsonField(sent[2], k_file_path)
              /\ b64decode(JsonField(sent[3], k_data_file)).ok
              /\ b64decode(JsonField(sent[3], k_data_file)).bytes = B

\* %PDF went up as the pieces %P and DF and came back whole, named .pdf
C10_Witness ==
    /\ pieces = <<<<37, 80>>, <<68, 70>>>>
    /\ faults = {} /\ Len(sent) = 3
    /\ b64decode(JsonField(sent[3], k_data_file)).bytes = m_pdf
    /\ EndsWith(JsonField(sent[3], k_data_namafile), s_pdf)

\* -------------------------------------------------------------------- C11
\* remote_upload of one file: UPLOAD, its pieces in base64, ENDUPLOAD
UploadFrames(ps) ==
    <<s_UPLOAD>> \o [i \in 1..Len(ps) |-> b64encode(ps[i])] \o <<s_ENDUPLOAD>>

\* one connection whose client uploads the same file twice and then lists
InitTwice ==
    /\ call = NoCall
    /\ InitSession
    /\ pieces \in SeqsUpTo(Pieces, 1)
    /\ script = UploadFrames(pieces) \o UploadFrames(pieces) \o <<s_LIST>>
    /\ unread = Wire(script)

SpecTwice == InitTwice /\ [][Next]_vars

\* how many times t occurs in s
Count(s, t) == Cardinality({i \in 1..(Len(s) - Len(t) + 1) : SubSeq(s, i, i + Len(t) - 1) = t})

\* the canonical filename of the bytes b
CanonicalName(b) == md5_hexdigest(b) \o detect_file_type(b)

\* C11: the same bytes B uploaded twice get the same canonical filename both
\* times, and the LIST that follows on a disk that did not fail contains that
\* filename exactly once, whatever B is (recognised type or not).
C11_IdempotentUpload ==
    (faults = {}) =>
        /\ Len(sent) >= 4 =>
              /\ JsonField(sent[2], k_file_path) = CanonicalName(B)
              /\ JsonField(sent[4], k_file_path) = CanonicalName(B)
        /\ Len(sent) = 5 =>
              Count(sent[5], JsonStr(CanonicalName(B))) = 1

\* the part of C11 that the code keeps: the same name both times, one stored
\* file of that name holding B, and the name listed once when it has a dot
C11_IdempotentWhenRecognised ==
    (faults = {}) =>
        /\ Len(sent) >= 4 =>
              /\ JsonField(sent[2], k_file_path) = CanonicalName(B)
              /\ JsonField(sent[4], k_file_path) = CanonicalName(B)
              /\ CanonicalName(B) \in DOMAIN files /\ files[CanonicalName(B)] = B
        /\ Len(sent) = 5 =>
              Count(sent[5], JsonStr(CanonicalName(B))) =
                  IF detect_file_type(B) = <<>> THEN 0 ELSE 1

\* b'\xff\xfb\x00' went up twice and is listed once, as an .mpeg
C11_Witness ==
    /\ pieces = <<<<255, 251, 0>>>> /\ faults = {} /\ Len(sent) = 5
    /\ Count(sent[5], JsonStr(CanonicalName(B))) = 1

\* -------------------------------------------------------------------- C18
\* C18: the dispatcher is handed an UPLOAD command only by the ENDUPLOAD
\* branch, in UPLOADING mode, and only with the path of the temp file the
\* handler created for this session; a client's frame that begins with UPLOAD
\* (UPLOAD a.b) opens an upload and is never dispatched.
C18_InternalUploadOnly ==
    \A i \in 1..Len(ops) :
        (ops[i][1] = "dispatch" /\ Verb(ops[i][2]) = s_UPLOAD) =>
            /\ ops[1] = <<"frame_uploading", s_ENDUPLOAD>>
            /\ tmp_seq >= 1
            /\ ops[i][2] = s_UPLOAD \o SP \o TempName(tmp_seq)

\* the client sent UPLOAD a.b and ENDUPLOAD: what was stored is the session's
\* temp file, and files/a.b is as it was
C18_Witness ==
    /\ script = <<s_UPLOAD \o SP \o s_a_b, s_ENDUPLOAD>>
    /\ Did(ops, "dispatch") /\ ops[1] = <<"frame_uploading", s_ENDUPLOAD>>
    /\ faults = {} /\ s_a_b \in DOMAIN files /\ files[s_a_b] = s_hi
    /\ CanonicalName(<<>>) \in DOMAIN files

\* -------------------------------------------------------------------- C19
\* A reader of JSON text: each operator takes the text and a position and
\* gives the position after what it read, or 0 when the text is malformed.
SkipWs(s, i) == IF i <= Len(s) /\ s[i] = 32 THEN i + 1 ELSE i

IsHex(c) == c \in (48..57) \cup (65..70) \cup (97..102)

\* the number of backslashes that stand directly before position k
BackslashRun(s, k) ==
    CHOOSE n \in 0..(k - 1) :
        /\ \A d \in 1..n : s[k - d] = 92
        /\ (n = k - 1 \/ s[k - n - 1] # 92)

\* position k of a string that opens before i is not part of an escape
Unescaped(s, i, k) == BackslashRun(SubSeq(s, i, Len(s)), k - i + 1) % 2 = 0

\* i is the position after the opening quote: the string ends at the first
\* quote that is not escaped, and what is before it holds no control
\* character and no backslash that does not begin an escape of JSON
StringEnd(s, i) ==
    LET closing == {k \in i..Len(s) : s[k] = 34 /\ Unescaped(s, i, k)}
    IN  IF closing = {} THEN 0
        ELSE LET q == CHOOSE k \in closing : \A o \in closing : k <= o
             IN  IF \A k \in i..(q - 1) :
                        /\ s[k] >= 32
                        /\ (s[k] = 92 /\ Unescaped(s, i, k)) =>
                              \/ s[k + 1] \in {34, 92, 47, 98, 102, 110, 114, 116}
                              \/ /\ s[k + 1] = 117 /\ k + 5 < q
                                 /\ \A d \in 2..5 : IsHex(s[k + d])
                 THEN q + 1 ELSE 0

RECURSIVE ValueEnd(_, _)
RECURSIVE ItemsEnd(_, _)
RECURSIVE MembersEnd(_, _)
\* the items of an array, i after '[' or after a ','
ItemsEnd(s, i) ==
    LET j == ValueEnd(s, SkipWs(s, i))
    IN  IF j = 0 \/ j > Len(s) THEN 0
        ELSE IF s[j] = 93 THEN j + 1
        ELSE IF s[j] = 44 THEN ItemsEnd(s, j + 1)
        ELSE 0

\* the members of an object, i after '{' or after a ','
MembersEnd(s, i) ==
    LET k == SkipWs(s, i)
        j == IF k <= Len(s) /\ s[k] = 34 THEN StringEnd(s, k + 1) ELSE 0
        c == IF j = 0 THEN 0 ELSE SkipWs(s, j)
        v == IF c = 0 \/ c > Len(s) \/ s[c] # 58 THEN 0 ELSE ValueEnd(s, SkipWs(s, c + 1))
    IN  IF v = 0 \/ v > Len(s) THEN 0
        ELSE IF s[v] = 125 THEN v + 1
        ELSE IF s[v] = 44 THEN MembersEnd(s, v + 1)
        ELSE 0

ValueEnd(s, i) ==
    IF i > Len(s) THEN 0
    ELSE IF s[i] = 34 THEN StringEnd(s, i + 1)
    ELSE IF s[i] = 91 THEN
        IF i + 1 <= Len(s) /\ s[i + 1] = 93 THEN i + 2 ELSE ItemsEnd(s, i + 1)
    ELSE IF s[i] = 123 THEN
        IF i + 1 <= Len(s) /\ s[i + 1] = 125 THEN i + 2 ELSE MembersEnd(s, i + 1)
    ELSE 0

\* json.loads accepts the text, and it is an object whose status is OK or ERROR
IsEnvelope(p) ==
    /\ p # <<>> /\ Head(p) = 123
    /\ ValueEnd(p, 1) = Len(p) + 1
    /\ \/ StartsWith(p, s_json_status_ok) \/ StartsWith(p, s_json_status_error)
       \/ StartsWith(p, s_err_head)

\* the message with the terminator taken off, as the client reads it
Payload(msg) == SubSeq(msg, 1, Len(msg) - Len(Terminator))

RecvStep == pc = "run" /\ Len(unread') < Len(unread) /\ peer' = peer

\* sent grows at its end only
SentExtends == Len(sent') >= Len(sent) /\ SubSeq(sent', 1, Len(sent)) = sent

\* C20 as stated: with the client there, one response for a command frame,
\* an UPLOAD frame or an ENDUPLOAD frame, none for an upload chunk frame.
C20_FixedCountPerFrame ==
    [][(FrameStep /\ peer = "alive") =>
          Len(sent') - Len(sent) =
              IF uploading /\ NextLine # s_ENDUPLOAD THEN 0 ELSE 1]_vars

\* C20: responses are appended in the order of the frames; with the client
\* there, a command frame, an UPLOAD frame in COMMAND mode and an ENDUPLOAD
\* frame in UPLOADING mode get exactly one response each, a chunk that decodes
\* gets none, and a chunk that does not decode gets one error response, after
\* which the connection is closed; with the client gone no response is
\* delivered; recv is called only when the buffer holds no complete frame.
C20_ResponsesPerFrame ==
    [][/\ SentExtends
       /\ (FrameStep /\ peer = "alive") =>
             Len(sent') - Len(sent) =
                 IF uploading /\ NextLine # s_ENDUPLOAD /\ b64decode(NextLine).ok
                 THEN 0 ELSE 1
       /\ (FrameStep /\ peer = "alive" /\ uploading /\ BadChunk(NextLine)) =>
             pc' = "closed" /\ IsErrorPayload(Last(sent'))
       /\ (FrameStep /\ peer # "alive") => sent' = sent
       /\ RecvStep => ~HasFrame]_vars

\* a chunk was written and no response followed the READY
C20_Witness ==
    /\ ops # <<>> /\ ops[1] = <<"frame_uploading", b64encode(s_hi)>>
    /\ Did(ops, "write_tmp") /\ peer = "alive"
    /\ Len(sent) = 1 /\ Payload(sent[1]) = READY

\* ====================================================== the server shell
\* ThreadedServer and ProcessServer: a listening socket, the accept loop, and
\* one ClientHandler.run per accepted connection, run by a worker of the
\* executor (thread mode) or by a thread of its own (process mode).  All
\* handlers share the directory files/ and the temp directory.

\* the bound on the size of the executor's pool
MaxWorkers == 2

Running == {c \in Conns : conns[c].state = "running"}

\* (mutant) the executor starts a thread for every handler submitted
WorkerFree_always(busy, n) == TRUE

\* the executor has a worker that is not running a handler
WorkerFree(busy, n) == Cardinality(busy) < n

\* executor.submit(handler.run): the handler joins the end of the work queue
Submit(queue, c) == Append(queue, c)

\* the handler's locals and the shared directories as one Session value
SessionOf(c) ==
    [buffer |-> conns[c].buffer, uploading |-> conns[c].uploading,
     temp_file |-> conns[c].temp_file, temp_path |-> conns[c].temp_path,
     pc |-> "run", files |-> files, tmpdir |-> tmpdir, tmp_seq |-> tmp_seq,
     sent |-> conns[c].sent, ops |-> <<>>]

\* the connection after a step of its handler that left the Session m
After(c, m) ==
    [conns[c] EXCEPT !.buffer = m.buffer, !.uploading = m.uploading,
                     !.temp_file = m.temp_file, !.temp_path = m.temp_path,
                     !.sent = m.sent, !.ops = m.ops, !.store = NoStore,
                     !.state = IF m.pc = "closed" THEN "done" ELSE "running"]

Alive(c) == conns[c].client # "reset"

FrameReady(c) == conns[c].state = "running" /\ Contains(conns[c].buffer, 10)

LineOf(c) == Strip(SubSeq(conns[c].buffer, 1, IndexOf(conns[c].buffer, 10) - 1))

\* the frame at the head of the buffer is the ENDUPLOAD of an upload
AtEndUpload(c) == FrameReady(c) /\ conns[c].uploading /\ LineOf(c) = s_ENDUPLOAD

\* (mutant) every write goes to the end of the file
WriteAt_appends(content, off, data) == content \o data

\* out_f.write at the file object's own position: a file shorter than the
\* position is filled with zero bytes up to it
WriteAt(content, off, data) ==
    LET padded == content \o [i \in 1..(off - Len(content)) |-> 0]
    IN  SubSeq(padded, 1, off) \o data \o Drop(padded, off + Len(data))

\* ---------------------------------------------------------- the clients
\* the client's connect returns and it sends its frames (sock.sendall): the
\* kernel holds the connection and the bytes until accept and recv take them
Connect(c) ==
    /\ conns[c].state = "idle"
    /\ conns' = [conns EXCEPT ![c].state = "backlog",
                              ![c].unread = Wire(conns[c].script)]
    /\ backlog' = Append(backlog, c)
    /\ UNCHANGED <<mode, max_workers, accept_loop, launcher, work_queue,
                   files, tmpdir, tmp_seq, faults, handlervars, call>>

\* sock.close() of the client once it has sent everything
ClientClose(c) ==
    /\ conns[c].state # "idle" /\ conns[c].client = "open"
    /\ conns' = [conns EXCEPT ![c].client = "closed"]
    /\ UNCHANGED <<mode, max_workers, accept_loop, launcher, backlog, work_queue,
                   files, tmpdir, tmp_seq, faults, handlervars, call>>

\* the client's end goes away abruptly: what was not read yet is lost
ClientReset(c) ==
    /\ conns[c].state \in {"queued", "running"} /\ conns[c].client = "open"
    /\ conns' = [conns EXCEPT ![c].client = "reset", ![c].unread = <<>>]
    /\ UNCHANGED <<mode, max_workers, accept_loop, launcher, backlog, work_queue,
                   files, tmpdir, tmp_seq, faults, handlervars, call>>

\* ------------------------------------------------------ serve_forever
\* sock.accept() returns the oldest connection; ThreadedServer submits its
\* handler to the executor, ProcessServer starts a thread for it
Accept ==
    /\ accept_loop = "accepting" /\ backlog # <<>>
    /\ LET c == Head(backlog)
       IN  /\ backlog' = Tail(backlog)
           /\ IF mode = "thread"
              THEN /\ work_queue' = Submit(work_queue, c)
                   /\ conns' = [conns EXCEPT ![c].state = "queued"]
              ELSE /\ work_queue' = work_queue
                   /\ conns' = [conns EXCEPT ![c].state = "running"]
    /\ UNCHANGED <<mode, max_workers, accept_loop, launcher,
                   files, tmpdir, tmp_seq, faults, handlervars, call>>

\* a worker of the executor takes the oldest handler of the work queue
WorkerStart ==
    /\ work_queue # <<>> /\ WorkerFree(Running, max_workers)
    /\ conns' = [conns EXCEPT ![Head(work_queue)].state = "running"]
    /\ work_queue' = Tail(work_queue)
    /\ UNCHANGED <<mode, max_workers, accept_loop, launcher, backlog,
                   files, tmpdir, tmp_seq, faults, handlervars, call>>

\* SIGINT or SIGTERM reaches the launcher (and, when the signal is sent to
\* the process group, the server processes it started): _graceful_shutdown
\* raises SystemExit in the main thread of each process the signal reaches.
\* In thread mode that is the thread of the accept loop, and leaving the with
\* block waits for the handlers submitted.  In process mode the accept loop
\* runs in a child process, which a signal sent to the launcher alone does
\* not reach; the launcher then waits for its children.
Signal ==
    /\ launcher = "running"
    /\ launcher' = "exiting"
    /\ \E group \in IF mode = "process" THEN BOOLEAN ELSE {FALSE} :
          accept_loop' = IF mode = "thread" \/ group THEN "stopped" ELSE accept_loop
    /\ UNCHANGED <<mode, max_workers, backlog, work_queue, conns,
                   files, tmpdir, tmp_seq, faults, handlervars, call>>

\* ------------------------------------------------- ClientHandler.run
HandlerStep(c, m) ==
    /\ conns' = [conns EXCEPT ![c] = After(c, m)]
    /\ files' = m.files
    /\ tmpdir' = m.tmpdir
    /\ tmp_seq' = m.tmp_seq

\* conn.recv returns what the client has written
HandlerRecv(c) ==
    /\ conns[c].state = "running" /\ ~FrameReady(c)
    /\ Alive(c) /\ conns[c].unread # <<>>
    /\ LET m == Received(SessionOf(c), conns[c].unread, TRUE)
       IN  /\ conns' = [conns EXCEPT ![c] = [After(c, m) EXCEPT !.unread = <<>>]]
           /\ files' = m.files /\ tmpdir' = m.tmpdir /\ tmp_seq' = m.tmp_seq
    /\ UNCHANGED <<mode, max_workers, accept_loop, launcher, backlog, work_queue,
                   faults, handlervars, call>>

\* conn.recv returns b'': the client has closed and everything was read
HandlerRecvEOF(c) ==
    /\ conns[c].state = "running" /\ ~FrameReady(c)
    /\ conns[c].client = "closed" /\ conns[c].unread = <<>>
    /\ HandlerStep(c, ReceivedEOF(SessionOf(c)))
    /\ UNCHANGED <<mode, max_workers, accept_loop, launcher, backlog, work_queue,
                   faults, handlervars, call>>

\* conn.recv raises: the connection was reset
HandlerRecvFails(c) ==
    /\ conns[c].state = "running" /\ ~FrameReady(c)
    /\ conns[c].client = "reset"
    /\ HandlerStep(c, ReceiveFailed(SessionOf(c)))
    /\ UNCHANGED <<mode, max_workers, accept_loop, launcher, backlog, work_queue,
                   faults, handlervars, call>>

\* the inner loop handles the next frame; the store of an ENDUPLOAD is
\* followed system call by system call below
HandlerFrame(c) ==
    /\ FrameReady(c) /\ ~AtEndUpload(c)
    /\ HandlerStep(c, ProcessLine(SessionOf(c), Alive(c), "ok"))
    /\ UNCHANGED <<mode, max_workers, accept_loop, launcher, backlog, work_queue,
                   faults, handlervars, call>>

\* ENDUPLOAD, up to open(hashed_name + file_type, 'wb'): the temp file is
\* closed and read, and the stored file is created, or emptied if it exists.
\* When the open raises, or the temp file is gone, the branch runs to its end.
StoreOpen(c) ==
    /\ AtEndUpload(c) /\ conns[c].store.stage = "none"
    /\ \E io \in {"ok", "open_fails"} :
          IF io = "open_fails" \/ conns[c].temp_path \notin DOMAIN tmpdir
          THEN /\ HandlerStep(c, ProcessLine(SessionOf(c), Alive(c), "open_fails"))
               /\ faults' = faults \cup {"store_io"}
          ELSE LET file_bytes == tmpdir[conns[c].temp_path]
                   name == CanonicalName(file_bytes)
               IN  /\ files' = Put(files, name, <<>>)
                   /\ conns' = [conns EXCEPT
                         ![c].temp_file = "closed",
                         ![c].store = [stage |-> "open", name |-> name,
                                       bytes |-> file_bytes, off |-> 0],
                         ![c].overlapped =
                             @ \/ \E d \in Conns \ {c} : conns[d].store.stage = "open"]
                   /\ UNCHANGED <<tmpdir, tmp_seq, faults>>
    /\ UNCHANGED <<mode, max_workers, accept_loop, launcher, backlog, work_queue,
                   handlervars, call>>

\* out_f.write(file_bytes): the next bytes reach the file, in one system call
\* or in several, or the write raises and the branch runs to its end
StoreWrite(c) ==
    /\ conns[c].state = "running" /\ conns[c].store.stage = "open"
    /\ conns[c].store.off < Len(conns[c].store.bytes)
    /\ LET st == conns[c].store
       IN  \/ \E k \in (st.off + 1)..Len(st.bytes) :
                /\ files' = IF st.name \in DOMAIN files
                            THEN [files EXCEPT ![st.name] =
                                     WriteAt(@, st.off, SubSeq(st.bytes, st.off + 1, k))]
                            ELSE files
                /\ conns' = [conns EXCEPT ![c].store.off = k]
                /\ UNCHANGED <<tmpdir, tmp_seq, faults>>
           \/ LET m == ProcessLine(SessionOf(c), Alive(c), "write_fails")
              IN  /\ conns' = [conns EXCEPT ![c] = After(c, m)]
                  /\ tmpdir' = m.tmpdir /\ tmp_seq' = m.tmp_seq
                  /\ faults' = faults \cup {"store_io"}
                  /\ UNCHANGED files
    /\ UNCHANGED <<mode, max_workers, accept_loop, launcher, backlog, work_queue,
                   handlervars, call>>

\* the with block closes the stored file; the envelope is sent, the temp file
\* removed and the session is back in COMMAND mode
StoreClose(c) ==
    /\ conns[c].state = "running" /\ conns[c].store.stage = "open"
    /\ conns[c].store.off = Len(conns[c].store.bytes)
    /\ LET m == ProcessLine(SessionOf(c), Alive(c), "ok")
       IN  /\ conns' = [conns EXCEPT ![c] = After(c, m)]
           /\ tmpdir' = m.tmpdir /\ tmp_seq' = m.tmp_seq
    /\ UNCHANGED <<mode, max_workers, accept_loop, launcher, backlog, work_queue,
                   files, faults, handlervars, call>>

NextServer ==
    \/ Accept \/ WorkerStart \/ Signal
    \/ \E c \in Conns :
          \/ Connect(c) \/ ClientClose(c) \/ ClientReset(c)
          \/ HandlerRecv(c) \/ HandlerRecvEOF(c) \/ HandlerRecvFails(c)
          \/ HandlerFrame(c) \/ StoreOpen(c) \/ StoreWrite(c) \/ StoreClose(c)

\* what the clients of the server do: upload b'hi', fetch it by its canonical
\* name, send a chunk that is not base64, or connect and say nothing
s_upload_hi == UploadFrames(<<s_hi>>)
s_get_hi == <<s_GET \o SP \o CanonicalName(s_hi)>>
s_bad_chunk == <<s_UPLOAD, s_GET>>

\* the single handler's variables, unused by the server shell
NoHandler ==
    /\ buffer = <<>> /\ uploading = FALSE /\ temp_file = "None" /\ temp_path = <<>>
    /\ pc = "closed" /\ sent = <<>> /\ unread = <<>> /\ peer = "alive"
    /\ script = <<>> /\ pieces = <<>> /\ files_at_upload = InitialFiles /\ ops = <<>>

InitShell ==
    /\ NoHandler
    /\ accept_loop = "accepting"
    /\ launcher = "running"
    /\ backlog = <<>>
    /\ work_queue = <<>>
    /\ tmpdir = NoFiles
    /\ tmp_seq = 0
    /\ faults = {}

\* a server in either mode; each client uploads, sends a bad chunk or is silent
InitServer ==
    /\ call = NoCall
    /\ InitShell
    /\ \/ mode = "thread" /\ max_workers \in 1..MaxWorkers
       \/ mode = "process" /\ max_workers = 1
    /\ conns \in [Conns -> {NoConn(s) : s \in {s_upload_hi, s_bad_chunk, <<>>}}]
    /\ files = InitialFiles

SpecServer == InitServer /\ [][NextServer]_vars

\* a threaded server with a worker for each client; each client uploads
\* b'hi' or fetches it, and b'hi' may be in storage already
InitStorage ==
    /\ call = NoCall
    /\ InitShell
    /\ mode = "thread" /\ max_workers = MaxWorkers
    /\ conns \in [Conns -> {NoConn(s) : s \in {s_upload_hi, s_get_hi}}]
    /\ files \in {InitialFiles, Put(InitialFiles, CanonicalName(s_hi), s_hi)}

SpecStorage == InitStorage /\ [][NextServer]_vars

\* -------------------------------------------------------------------- C12
Queued == {c \in Conns : conns[c].state = "queued"}

\* C12: in thread mode at most max_workers handlers run at any moment; a
\* connection accepted while every worker is busy waits in the work queue,
\* which loses nothing, and leaves it only to be run, oldest first; whenever
\* a worker is free and the queue is not empty a worker can start the oldest
\* handler; and accept can return whenever a connection is waiting for it,
\* however many workers are busy.
C12_BoundedPool ==
    /\ [](mode = "thread" =>
            /\ Cardinality(Running) <= max_workers
            /\ Len(work_queue) = Cardinality(Queued)
            /\ {work_queue[i] : i \in 1..Len(work_queue)} = Queued
            /\ (work_queue # <<>> /\ Cardinality(Running) < max_workers)
                   => ENABLED WorkerStart
            /\ (accept_loop = "accepting" /\ backlog # <<>>) => ENABLED Accept)
    /\ [][mode = "thread" =>
            \A c \in Conns :
               /\ (conns[c].state = "queued") => conns'[c].state \in {"queued", "running"}
               /\ (conns[c].state = "queued" /\ conns'[c].state = "running")
                      => c = Head(work_queue)
               /\ (conns[c].state = "backlog" /\ conns'[c].state # "backlog")
                      => conns'[c].state = "queued" /\ Last(work_queue') = c]_vars

\* the one worker is busy with a client that says nothing, and the second
\* connection has been accepted and waits in the queue
C12_Witness ==
    /\ mode = "thread" /\ max_workers = 1 /\ accept_loop = "accepting"
    /\ conns["c1"].state = "running" /\ conns["c1"].script = <<>>
    /\ work_queue = <<"c2">> /\ conns["c2"].state = "queued"

\* -------------------------------------------------------------------- C13
\* a step of the handler of connection c
HandlerNext(c) ==
    \/ HandlerRecv(c) \/ HandlerRecvEOF(c) \/ HandlerRecvFails(c)
    \/ HandlerFrame(c) \/ StoreOpen(c) \/ StoreWrite(c) \/ StoreClose(c)

\* The threads of the server keep running: the accept loop, the workers of
\* the executor and every handler take their next step when they can.  The
\* clients promise nothing.
SpecServerLive ==
    /\ SpecServer
    /\ WF_vars(Accept) /\ WF_vars(WorkerStart)
    /\ \A c \in Conns : WF_vars(HandlerNext(c))

\* C13: the handler of every accepted connection comes to its end, whatever
\* its client does: a client that stays connected and sends nothing is cut
\* off by the read timeout, and its worker is released.
C13_SilentPeerTimesOut ==
    \A c \in Conns : (conns[c].state = "running") ~> (conns[c].state = "done")

\* what the code does instead: a handler that finds nothing to read from a
\* client that is still connected takes no step until the client acts
C13_SilentPeerBlocks ==
    \A c \in Conns :
        (/\ conns[c].state = "running" /\ conns[c].client = "open"
         /\ conns[c].unread = <<>> /\ ~FrameReady(c)) => ~ENABLED HandlerNext(c)

\* -------------------------------------------------------------------- C14
\* run of connection c raised: the except block ran (it sends, or tries to
\* send, the error response) and run returned
Raised(c) ==
    /\ conns[c].state = "running" /\ conns'[c].state = "done"
    /\ Did(conns'[c].ops, "send") \/ Did(conns'[c].ops, "send_fails")

\* the step is one of connection c in which an error came up: an exception
\* in run, or a store that failed
ErrorIn(c) == Raised(c) \/ (faults' # faults /\ conns'[c] # conns[c])

Accepted == \E c \in Conns : conns[c].state = "backlog" /\ conns'[c].state # "backlog"

\* C15: once a shutdown signal has been delivered to the launcher no new
\* connection is accepted, in thread mode and in process mode, and the
\* delivery leaves every handler in flight, and every handler waiting in the
\* work queue, as it was.
C15_ShutdownStopsAccepting ==
    [][/\ (launcher # "running") => ~Accepted
       /\ (launcher' # launcher) => conns' = conns /\ work_queue' = work_queue]_vars

\* what the code keeps of C15: the signal never touches a handler; it ends
\* the accept loop of every process it reaches, which in thread mode is the
\* launcher itself and in process mode is a server process only when the
\* signal goes to the whole process group
C15_StopsWhereDelivered ==
    [][/\ (launcher # "running" /\ mode = "thread") => ~Accepted
       /\ (accept_loop = "stopped") => ~Accepted /\ accept_loop' = "stopped"
       /\ (launcher' # launcher) => conns' = conns /\ work_queue' = work_queue]_vars

\* in thread mode the signal came while a handler was running and another
\* was queued; the queued one was then started and ran to its end
C15_Witness ==
    /\ mode = "thread" /\ max_workers = 1 /\ launcher = "exiting"
    /\ accept_loop = "stopped"
    /\ conns["c1"].state = "done" /\ conns["c2"].state = "done"
    /\ conns["c2"].script = s_upload_hi /\ Len(conns["c2"].sent) = 2

\* -------------------------------------------------------------------- C16
\* the payload is the OK envelope of a GET
IsGetPayload(p) == IsOkPayload(p) /\ Find(p, JsonStr(k_data_namafile)) > 0

\* the bytes a GET envelope carries
GotBytes(p) == b64decode(JsonField(p, k_data_file)).bytes

\* C16: on a disk that does not fail, every GET of a stored name, from any
\* connection and at any moment of the uploads running on other connections,
\* returns the complete bytes stored under that name: the bytes whose
\* canonical name it is.
C16_StoredFileImmutable ==
    (faults = {}) =>
        \A c \in Conns : \A i \in 1..Len(conns[c].sent) :
            IsGetPayload(Payload(conns[c].sent[i])) =>
                CanonicalName(GotBytes(Payload(conns[c].sent[i])))
                    = JsonField(Payload(conns[c].sent[i]), k_data_namafile)

\* what a GET can return instead: the bytes written so far by a store that
\* is still running, which are a proper part of b'hi', possibly none
C16_GetSeesPartialFile ==
    (faults = {}) =>
        \A c \in Conns : \A i \in 1..Len(conns[c].sent) :
            IsGetPayload(Payload(conns[c].sent[i])) =>
                GotBytes(Payload(conns[c].sent[i])) \in {<<>>, <<104>>, <<0, 105>>, s_hi}

\* -------------------------------------------------------------------- C17
BothUpload == \A c \in Conns : conns[c].script = s_upload_hi

NoStoreOpen == \A c \in Conns : conns[c].store.stage = "none"

\* C17: two connections upload the same bytes b'hi' at the same time on a
\* disk that does not fail.  Whatever the order of their opens, writes and
\* closes, each envelope is OK and names the canonical filename of b'hi';
\* and once a store has completed and none is in progress, storage holds
\* one file of that name, its content is b'hi', and nothing else was added.
C17_ConcurrentSameContent ==
    (BothUpload /\ faults = {}) =>
        /\ \A c \in Conns : Len(conns[c].sent) >= 2 =>
              /\ IsOkPayload(conns[c].sent[2])
              /\ JsonField(conns[c].sent[2], k_file_path) = CanonicalName(s_hi)
        /\ (NoStoreOpen /\ \E c \in Conns : Len(conns[c].sent) >= 2) =>
              /\ CanonicalName(s_hi) \in DOMAIN files
              /\ files[CanonicalName(s_hi)] = s_hi
              /\ DOMAIN files = DOMAIN InitialFiles \cup {CanonicalName(s_hi)}

\* both uploads are done, and one of them opened the stored file while the
\* other had it open
C17_Witness ==
    /\ BothUpload /\ faults = {} /\ NoStoreOpen
    /\ \A c \in Conns : Len(conns[c].sent) = 2 /\ conns[c].state = "done"
    /\ \E c \in Conns : conns[c].overlapped
    /\ files[CanonicalName(s_hi)] = s_hi

\* -------------------------------------------------------------------- C21
\* C21: between frames the session has an open temp file with a non-empty
\* path exactly when it is UPLOADING, and that file is then the only temp
\* file there is; a frame handled in UPLOADING mode never creates a temp file
\* (an UPLOAD frame there is taken for a chunk); and when run has returned no
\* temp file the session created is left.
C21_TempFileDiscipline ==
    /\ [](/\ pc = "run" =>
               /\ uploading <=> (temp_file = "open" /\ temp_path # <<>>)
               /\ uploading => temp_path = TempName(tmp_seq)
               /\ DOMAIN tmpdir = IF uploading THEN {temp_path} ELSE {}
          /\ pc = "closed" => tmpdir = NoFiles /\ temp_file # "open")
    /\ [][/\ uploading => tmp_seq' = tmp_seq
          /\ tmp_seq' \in {tmp_seq, tmp_seq + 1}]_vars

\* the client sent UPLOAD twice: the second was taken for a chunk, one temp
\* file was created, and it was removed when run returned
C21_Witness ==
    /\ script = <<s_UPLOAD, s_UPLOAD>> /\ pc = "closed" /\ uploading
    /\ tmp_seq = 1 /\ tmpdir = NoFiles /\ Did(ops, "remove_tmp")

\* -------------------------------------------------------------------- C22
\* texts a client was cut off in the middle of sending, before the newline
Unterminated == { s_LIST, s_DELETE \o SP \o s_a_b, s_ENDUPLOAD, b64encode(s_hi) }

\* one connection whose client sends at most one whole frame and then part
\* of another, and closes
InitUnterminated ==
    /\ call = NoCall
    /\ InitSession
    /\ pieces = <<>>
    /\ \E whole \in SeqsUpTo(Catalogue, 1), part \in Unterminated :
          /\ script = Append(whole, part)
          /\ unread = Wire(whole) \o Utf8Encode(part)

SpecUnterminated == InitUnterminated /\ [][Next]_vars

\* recv returns b'' in this step: the client has closed, everything it
\* wrote was read, and run returns
EOFStep ==
    /\ pc = "run" /\ ~HasFrame /\ peer = "alive" /\ unread = <<>>
    /\ pc' = "closed"

\* C22: when the client closes, what is left in the buffer without a newline
\* is dropped: the step in which run returns sends nothing, calls the
\* dispatcher for nothing, writes to no temp file and leaves storage as it
\* is; all it does is close and remove the session's temp file, if any.
C22_UnterminatedDiscarded ==
    [][EOFStep =>
          /\ sent' = sent /\ files' = files /\ buffer' = buffer
          /\ \A i \in 1..Len(ops') :
                ops'[i][1] \in {"recv", "close_tmp", "remove_tmp", "close_conn"}
          /\ tmpdir' = NoFiles
          /\ DOMAIN tmpdir \subseteq {temp_path}]_vars

\* the client sent UPLOAD and then the chunk aGk= without its newline, and
\* closed: READY was the only response, nothing of the chunk was written,
\* and the temp file is gone
C22_Witness ==
    /\ script = <<s_UPLOAD, b64encode(s_hi)>> /\ pc = "closed" /\ peer = "alive"
    /\ buffer = b64encode(s_hi) /\ unread = <<>>
    /\ Len(sent) = 1 /\ ~Did(ops, "write_tmp") /\ Did(ops, "remove_tmp")
    /\ files = InitialFiles /\ tmpdir = NoFiles

\* ================================================== the client functions
\* everything but the client function's own state
servervars == <<files, tmpdir, tmp_seq, faults, handlervars, shellvars>>

s_timeout == <<116, 105, 109, 101, 111, 117, 116, 32, 100, 117, 114, 105, 110, 103, 32, 114, 101, 99, 101, 105, 118, 101>>  \* 'timeout during receive'
s_json_error == <<69, 120, 112, 101, 99, 116, 105, 110, 103, 32, 118, 97, 108, 117, 101>>  \* 'Expecting value'
s_READY == <<82, 69, 65, 68, 89>>  \* 'READY'

\* a dict with the keys status and data, as send_command returns it
Dict(status, data) == [kind |-> "dict", status |-> status, data |-> data]

\* json.loads(text) inside send_command's try: the envelope's status with the
\* JSON text it was read from, or the ERROR dict the except clause of lines
\* 63-65 makes of the JSONDecodeError
json_loads(text) ==
    LET t == Strip(text)
    IN  IF t # <<>> /\ ValueEnd(t, 1) = Len(t) + 1
        THEN Dict(IF StartsWith(t, s_err_head) THEN s_ERROR ELSE JsonField(t, k_status), t)
        ELSE Dict(s_ERROR, s_json_error)

\* the bytes the server has sent that the client's recv has not returned yet
Available == Drop(Concat(sent), call.got)

\* the bytes the client's recv calls have returned so far
Received_so_far == Take(Concat(sent), call.got)

\* chunk.decode() of the client: bytes below 0x80 stand for themselves, and
\* anything else is read as data.decode() of the server reads it
decode(chunk) ==
    IF \A i \in 1..Len(chunk) : chunk[i] < 128
    THEN [ok |-> TRUE, text |-> chunk, err |-> <<>>]
    ELSE Utf8Decode(chunk)

\* ---------------------------------------------------------- send_command
\* sock.recv(BUFFER_SIZE) of line 43 returns the next k bytes, and the loop
\* body of lines 48-56 runs on them
SendCommandRecv ==
    /\ call.at = "send_command" /\ Available # <<>>
    /\ \E k \in 1..Min(Len(Available), BUFFER_SIZE) :
          LET decoded     == decode(Take(Available, k))
              data_buffer == call.data_buffer \o decoded.text
              head        == Take(data_buffer, Find(data_buffer, Terminator) - 1)
          IN  call' =
                IF ~decoded.ok
                THEN [call EXCEPT !.at = "returned", !.got = @ + k,
                                  !.result = Dict(s_ERROR, decoded.err)]
                ELSE IF Find(decoded.text, Terminator) > 0
                THEN [call EXCEPT !.at = "returned", !.got = @ + k,
                                  !.data_buffer = head,
                                  !.result = json_loads(head)]
                ELSE [call EXCEPT !.got = @ + k, !.data_buffer = data_buffer]
    /\ UNCHANGED servervars

\* sock.recv raises socket.timeout (lines 44-46): nothing has arrived for
\* SOCKET_TIMEOUT seconds, the handler being blocked in its own recv
SendCommandTimeout ==
    /\ call.at = "send_command" /\ Available = <<>>
    /\ pc = "run" /\ ~HasFrame /\ unread = <<>>
    /\ call' = [call EXCEPT !.at = "returned",
                            !.result = Dict(s_ERROR, s_timeout)]
    /\ UNCHANGED servervars

\* sock.close() of the finally clause, seen by the handler as recv returning b''
SockClose == call.at = "returned" /\ RecvEOF

NextSendCommand ==
    Recv \/ ProcessFrame \/ SendCommandRecv \/ SendCommandTimeout \/ SockClose

\* the commands remote_list, remote_get and remote_delete send
Commands ==
    { s_LIST, s_GET \o SP \o s_a_b, s_GET \o SP \o s_hi, s_DELETE \o SP \o s_a_b }

\* send_command has connected and sent its command (lines 31-38)
InitSendCommand ==
    /\ InitSession
    /\ pieces = <<>>
    /\ \E command \in Commands : script = <<command>>
    /\ unread = Wire(script)
    /\ call = [NoCall EXCEPT !.at = "send_command"]

SpecSendCommand == InitSendCommand /\ [][NextSendCommand]_vars

\* -------------------------------------------------------------------- C23
\* C23 as stated: send_command is still reading only while what it has
\* received holds no terminator, and what it returns is the envelope the
\* server sent, parsed, whatever the split of the response across recv calls.
C23_StopsAtTerminator ==
    /\ call.at = "send_command" => Find(Received_so_far, Terminator) = 0
    /\ call.at = "returned" /\ sent # <<>> =>
          call.result = json_loads(Payload(sent[1]))

\* what does hold: a recv that returns the whole terminator ends the loop with
\* the parsed envelope, and a response whose terminator arrived in two recv
\* calls ends in the timeout error.
C23_StopsWhenOneChunkHoldsIt ==
    /\ call.at = "returned" /\ call.result.data # s_timeout =>
          call.result = json_loads(Payload(sent[1]))
    /\ call.at = "returned" /\ call.result.data = s_timeout =>
          /\ Find(call.data_buffer, Terminator) > 0
          /\ Find(call.data_buffer, Terminator) = Find(Concat(sent), Terminator)

\* --------------------------------------------------------- remote_upload
\* the encoded text cut into the lines of lines 139-145, BUFFER_SIZE
\* characters each
Chunks(encoded_data) ==
    [i \in 1..((Len(encoded_data) + BUFFER_SIZE - 1) \div BUFFER_SIZE) |->
        SubSeq(encoded_data, (i - 1) * BUFFER_SIZE + 1,
               Min(i * BUFFER_SIZE, Len(encoded_data)))]

\* what remote_upload writes to the socket for file_bytes, frame by frame
UploadWrites(file_bytes) ==
    <<s_UPLOAD>> \o Chunks(b64encode(file_bytes)) \o <<s_ENDUPLOAD>>

\* handshake = sock.recv(BUFFER_SIZE).decode().strip() of line 129 and the
\* test of line 134: without READY in it RuntimeError is raised, with it the
\* chunks and ENDUPLOAD are written (lines 139-148)
UploadHandshake ==
    /\ call.at = "handshake" /\ Available # <<>>
    /\ \E k \in 1..Min(Len(Available), BUFFER_SIZE) :
          LET decoded   == decode(Take(Available, k))
              handshake == Strip(decoded.text)
          IN  IF decoded.ok /\ Find(handshake, s_READY) > 0
              THEN /\ call' = [call EXCEPT !.at = "final", !.got = @ + k]
                   /\ unread' = unread \o Wire(Tail(script))
              ELSE /\ call' = [call EXCEPT !.at = "returned", !.got = @ + k,
                                           !.result.kind = "raised"]
                   /\ unread' = unread
    /\ UNCHANGED <<buffer, uploading, temp_file, temp_path, pc, sent, peer,
                   script, pieces, files_at_upload, ops>>
    /\ UNCHANGED <<files, tmpdir, tmp_seq, faults, shellvars>>

\* final_resp = sock.recv(BUFFER_SIZE).decode().strip() of line 151, and
\* return True of line 157
UploadFinal ==
    /\ call.at = "final" /\ Available # <<>>
    /\ \E k \in 1..Min(Len(Available), BUFFER_SIZE) :
          LET decoded    == decode(Take(Available, k))
              final_resp == Strip(decoded.text)
          IN  call' = [call EXCEPT !.at = "returned", !.got = @ + k,
                                   !.data_buffer = final_resp,
                                   !.result.kind =
                                       IF decoded.ok THEN "True" ELSE "raised"]
    /\ UNCHANGED servervars

NextRemoteUpload ==
    Recv \/ ProcessFrame \/ UploadHandshake \/ UploadFinal \/ SockClose

\* remote_upload has read the file, connected and sent UPLOAD (lines 118-126)
InitRemoteUpload ==
    /\ InitSession
    /\ pieces \in {<<>>, <<s_hi>>}
    /\ script = UploadWrites(B)
    /\ unread = Wire(<<s_UPLOAD>>)
    /\ call = [NoCall EXCEPT !.at = "handshake"]

SpecRemoteUpload == InitRemoteUpload /\ [][NextRemoteUpload]_vars

\* run_task of the load harness counts the task as a success
run_task_success == call.at = "returned" /\ call.result.kind = "True"

\* -------------------------------------------------------------------- C24
\* C24 as stated: when remote_upload has returned True, the envelope the
\* server sent for the ENDUPLOAD, once it is there, has status OK; an ERROR
\* envelope never goes with a success.
C24_TrueOnlyWhenStored ==
    run_task_success /\ Len(sent) >= 2 =>
        /\ IsOkPayload(sent[2])
        /\ ~IsErrorPayload(sent[2])

\* what does hold: remote_upload returns True as soon as its second recv has
\* returned any bytes at all, and it fails only on a handshake in which READY
\* did not arrive whole.
C24_TrueOnAnyAnswer ==
    call.at = "returned" =>
        /\ call.result.kind = "raised" <=> call.got < Len(s_READY)
        /\ call.result.kind = "True" <=> call.got > Len(s_READY)
====
